---- MODULE Spec2Model ----
(***************************************************************************)
(* EchoStream: a multi-tenant messaging backend (Go, gin, pgx, golang-jwt). *)
(* The model covers the token service (internal/auth), the auth gate       *)
(* (internal/middleware), the route table of cmd/server, the HTTP handlers  *)
(* (internal/api) and the Postgres stores (internal/repository/postgres).   *)
(***************************************************************************)
EXTENDS Integers, Sequences, FiniteSets, TLC

VARIABLES
    jwtSecret,   \* cfg.JWTSecret: the process-wide signing secret
    now,         \* the wall clock, in ticks (TicksPerSecond ticks make a second)
    tenants,     \* table tenants: set of tenant ids
    users,       \* table users: set of rows [id, tenant_id, email, password_hash]
    channels,    \* table channels: set of rows [id, tenant_id, name, created_at]
    messages,    \* table messages: set of rows [id, channel_id, sender_id, body]
    members,     \* table channel_members: set of rows [channel_id, user_id, role]
    nextMsgID,   \* the bigserial sequence behind messages.id
    tok,         \* the token the client holds (the last one the server issued)
    grant,       \* the arguments and the instant of the GenerateToken call behind tok
    last,        \* the last request served: what came in, what ran, what went out
    signups,     \* the signup requests in flight: per process, where Signup stands
    inserts,     \* the message inserts in flight: sequence value taken, row not yet visible
    walk,        \* a client paging through a channel: cursor, rows received so far
    page,        \* a page a client fetched earlier, with the arguments it was fetched by
    cancelled,   \* the processes whose request context is done (client gone)
    flying       \* the processes whose next statement is sent and has not returned

dbVars == <<tenants, users, channels, messages, members, nextMsgID>>
procVars == <<signups, inserts, walk, page, cancelled, flying>>
vars == <<jwtSecret, now, tenants, users, channels, messages, members, nextMsgID, tok, grant, last,
          signups, inserts, walk, page, cancelled, flying>>

-----------------------------------------------------------------------------
(* Bounds of the model.                                                     *)

\* The clock's resolution: ticks per second (jwt.TimePrecision is one second).
TicksPerSecond == 2
\* The last instant the token specification's clock reaches, in ticks.
MaxTime == 5
\* The longest ttl handed to GenerateToken in the token specification, in ticks.
MaxTTL == 3
\* Rows the channels, messages and channel_members tables may hold in all,
\* and values the messages sequence may hand out.
MaxRows == 3

-----------------------------------------------------------------------------
(* Identifiers and other input domains.                                     *)

NoTenant == "nil-tenant"
TenantIDs == {"tA", "tB"}
UserIDs == {"u1", "u2"}
Emails == {"a@x.com", "b@y.com"}
Passwords == {"pw-a", "pw-b"}
ChannelIDs == {"c1", "c2", "c3"}
Secrets == {"dev-secret", "prod-secret"}
AttackerKey == "attacker-key"
Roles == {"member", "admin"}

\* The seeded rows: two tenants with one user each, as two signups leave them.
SeedUsers ==
    { [id |-> "u1", tenant_id |-> "tA", email |-> "a@x.com",
       password_hash |-> [salt |-> "s1", pw |-> "pw-a"]],
      [id |-> "u2", tenant_id |-> "tB", email |-> "b@y.com",
       password_hash |-> [salt |-> "s2", pw |-> "pw-b"]] }

\* The request goroutines that run beside the one being served.
Procs == {"p1", "p2"}

\* A process with no signup in hand, no walk begun, no page remembered.
SignupIdle == [pc |-> "idle"]
NoWalk == [active |-> FALSE]
NoPage == [taken |-> FALSE]

-----------------------------------------------------------------------------
(* internal/auth: the token service.                                        *)

\* jwt.NewNumericDate: the instant truncated to jwt.TimePrecision.
NewNumericDate(t) == t - (t % TicksPerSecond)

\* The MAC of a signing string (header and payload) under a key: ideal, so two
\* MACs are equal exactly when hash, key, header and payload all are.
HMAC(hash, key, alg, claims) ==
    [hash |-> hash, key |-> key, alg |-> alg, claims |-> claims]

\* The empty signature of an unsigned token ("alg": "none").
NoSig == [hash |-> "none"]

\* GenerateToken with ExpiresAt taken from now alone, the ttl forgotten.
GenerateToken_NoTTL(userID, tenantID, email, secret, ttl, clock) ==
    LET claims == [user_id |-> userID, tenant_id |-> tenantID, email |-> email,
                   exp |-> (clock - (clock % TicksPerSecond)),
                   iat |-> (clock - (clock % TicksPerSecond)),
                   iss |-> "echostream"]
    IN [alg |-> "HS256", claims |-> claims,
        sig |-> [hash |-> "HS256", key |-> secret, alg |-> "HS256", claims |-> claims]]

\* GenerateToken: the claims, signed with HS256 under the secret.
GenerateToken(userID, tenantID, email, secret, ttl, clock) ==
    LET claims == [user_id |-> userID, tenant_id |-> tenantID, email |-> email,
                   exp |-> NewNumericDate(clock + ttl),
                   iat |-> NewNumericDate(clock),
                   iss |-> "echostream"]
    IN [alg |-> "HS256", claims |-> claims,
        sig |-> HMAC("HS256", secret, "HS256", claims)]

\* The algorithms jwt.GetSigningMethod knows that matter here, and the ones
\* whose method is a *jwt.SigningMethodHMAC.
KnownAlgs == {"HS256", "HS384", "none", "RS256"}
IsSigningMethodHMAC(alg) == alg \in {"HS256", "HS384"}

\* The key function without its check of the signing method.
KeyFunc_NoMethodCheck(alg, secret) == [err |-> FALSE, key |-> secret]

\* The key function ParseToken hands to the parser: the secret for an HMAC
\* method, an error for any other.
KeyFunc(alg, secret) ==
    IF ~IsSigningMethodHMAC(alg)
    THEN [err |-> TRUE, key |-> "no-key"]
    ELSE [err |-> FALSE, key |-> secret]

\* A Verify that accepts every signature.
Verify_AcceptAll(alg, claims, sig, key) == TRUE

\* Method.Verify with a []byte key: for an HMAC method, the MAC of the signing
\* string under the key compared with the signature; every other method
\* refuses a []byte key.
Verify(alg, claims, sig, key) ==
    IsSigningMethodHMAC(alg) /\ sig = HMAC(alg, key, alg, claims)

\* A validator with a leeway of one tick: jwt.WithLeeway.
ClaimsValid_Leeway(claims, clock) == clock < claims.exp + 1

\* The validator of the parsed claims: exp, when present, must be after now.
ClaimsValid(claims, clock) == clock < claims.exp

NoClaims == [none |-> TRUE]

\* ParseToken: jwt.ParseWithClaims with the key function above.
\* A token string is a sequence of symbols; only a single well-formed
\* three-part token symbol parses. The result records, beside the error and
\* the claims, whether the key was handed out and whether Verify ran.
ParseToken(tokenString, secret, clock) ==
    LET fail(e, k, v) == [err |-> e, claims |-> NoClaims, keyGiven |-> k, verified |-> v]
    IN IF Len(tokenString) # 1 \/ tokenString[1].k # "jwt"
       THEN fail("malformed", FALSE, FALSE)
       ELSE LET t == tokenString[1].t
                kf == KeyFunc(t.alg, secret)
            IN IF t.alg \notin KnownAlgs
               THEN fail("unavailable", FALSE, FALSE)
               ELSE IF kf.err
               THEN fail("unverifiable", FALSE, FALSE)
               ELSE IF ~Verify(t.alg, t.claims, t.sig, kf.key)
               THEN fail("signature", TRUE, TRUE)
               ELSE IF ~ClaimsValid(t.claims, clock)
               THEN fail("expired", TRUE, TRUE)
               ELSE [err |-> "nil", claims |-> t.claims, keyGiven |-> TRUE, verified |-> TRUE]

-----------------------------------------------------------------------------
(* internal/middleware: the auth gate.                                      *)

\* Header symbols: a word, a space, a token.
W(s) == [k |-> "w", w |-> s]
SP == [k |-> "sp"]
J(t) == [k |-> "jwt", t |-> t]

\* strings.SplitN(header, " ", 2)
FirstSpace(h) ==
    IF \E i \in 1..Len(h) : h[i] = SP
    THEN CHOOSE i \in 1..Len(h) : h[i] = SP /\ \A j \in 1..(i - 1) : h[j] # SP
    ELSE 0
SplitN2(h) ==
    IF FirstSpace(h) = 0 THEN <<h>>
    ELSE <<SubSeq(h, 1, FirstSpace(h) - 1), SubSeq(h, FirstSpace(h) + 1, Len(h))>>

\* strings.EqualFold(parts[0], "Bearer")
Fold(w) == CASE w = "Bearer" -> "bearer"
             [] w = "BEARER" -> "bearer"
             [] w = "Basic" -> "basic"
             [] OTHER -> w
EqualFoldBearer(part) ==
    Len(part) = 1 /\ part[1].k = "w" /\ Fold(part[1].w) = "bearer"

Err(msg) == [error |-> msg]
NoPrincipal == [none |-> TRUE]

\* A gate that lets a request through when it cannot make out a token.
AuthMiddleware_FailOpen(header, secret, clock) ==
    LET parts == SplitN2(header)
        parsed == ParseToken(parts[2], secret, clock)
        pass(p) == [aborted |-> FALSE, status |-> 0, body |-> [none |-> TRUE],
                    keys |-> NoPrincipal, parse |-> p]
        noParse == [err |-> "not-run", claims |-> NoClaims,
                    keyGiven |-> FALSE, verified |-> FALSE]
    IN IF header = <<>> \/ Len(parts) # 2 \/ ~EqualFoldBearer(parts[1])
       THEN pass(noParse)
       ELSE IF parsed.err # "nil"
       THEN pass(parsed)
       ELSE [aborted |-> FALSE, status |-> 0, body |-> [none |-> TRUE],
             keys |-> [user_id |-> parsed.claims.user_id,
                       tenant_id |-> parsed.claims.tenant_id,
                       email |-> parsed.claims.email],
             parse |-> parsed]

\* AuthMiddleware: the response it aborts with, or the claims it stores in the
\* request context before calling c.Next().
AuthMiddleware(header, secret, clock) ==
    LET abort(msg, p) == [aborted |-> TRUE, status |-> 401, body |-> Err(msg),
                          keys |-> NoPrincipal, parse |-> p]
        parts == SplitN2(header)
        parsed == ParseToken(parts[2], secret, clock)
        noParse == [err |-> "not-run", claims |-> NoClaims,
                    keyGiven |-> FALSE, verified |-> FALSE]
    IN IF header = <<>>
       THEN abort("missing authorization header", noParse)
       ELSE IF Len(parts) # 2 \/ ~EqualFoldBearer(parts[1])
       THEN abort("invalid authorization format, expected: Bearer <token>", noParse)
       ELSE IF parsed.err # "nil"
       THEN abort("invalid or expired token", parsed)
       ELSE [aborted |-> FALSE, status |-> 0, body |-> [none |-> TRUE],
             keys |-> [user_id |-> parsed.claims.user_id,
                       tenant_id |-> parsed.claims.tenant_id,
                       email |-> parsed.claims.email],
             parse |-> parsed]

\* The gin.Context of a request: the request itself and the keys set on it.
Context(req, keys) == [req |-> req, keys |-> keys]

\* A user id read from what the client wrote into the request.
GetUserID_FromRequest(c) == c.req.claimed.user_id

\* GetUserID / GetTenantID: the value stored under the key, the nil UUID when
\* the key is missing.
GetUserID(c) == IF "user_id" \in DOMAIN c.keys THEN c.keys.user_id ELSE "nil-user"

\* A tenant id read from what the client wrote into the request.
GetTenantID_FromRequest(c) == c.req.claimed.tenant_id

GetTenantID(c) == IF "tenant_id" \in DOMAIN c.keys THEN c.keys.tenant_id ELSE NoTenant

-----------------------------------------------------------------------------
(* cmd/server: the route table that run() registers.                        *)

\* The registration calls of run(), in order: a route on a group, or a
\* middleware added to a group with Use.
Registrations ==
    << [op |-> "route", group |-> "srv", method |-> "GET", path |-> "/v1/health", handler |-> "health"],
       [op |-> "route", group |-> "srv", method |-> "POST", path |-> "/v1/auth/signup", handler |-> "authHandler.Signup"],
       [op |-> "route", group |-> "srv", method |-> "POST", path |-> "/v1/auth/login", handler |-> "authHandler.Login"],
       [op |-> "use", group |-> "v1", mw |-> "AuthMiddleware"],
       [op |-> "route", group |-> "v1", method |-> "POST", path |-> "/v1/channels", handler |-> "channelHandler.Create"],
       [op |-> "route", group |-> "v1", method |-> "GET", path |-> "/v1/channels", handler |-> "channelHandler.List"],
       [op |-> "route", group |-> "v1", method |-> "GET", path |-> "/v1/channels/:id", handler |-> "channelHandler.GetByID"],
       [op |-> "route", group |-> "v1", method |-> "POST", path |-> "/v1/channels/:id/messages", handler |-> "messageHandler.Create"],
       [op |-> "route", group |-> "v1", method |-> "GET", path |-> "/v1/channels/:id/messages", handler |-> "messageHandler.List"],
       [op |-> "route", group |-> "v1", method |-> "POST", path |-> "/v1/channels/:id/join", handler |-> "membershipHandler.Join"],
       [op |-> "route", group |-> "v1", method |-> "POST", path |-> "/v1/channels/:id/leave", handler |-> "membershipHandler.Leave"],
       [op |-> "route", group |-> "v1", method |-> "GET", path |-> "/v1/channels/:id/members", handler |-> "membershipHandler.ListMembers"],
       [op |-> "route", group |-> "v1", method |-> "GET", path |-> "/v1/users/me", handler |-> "userHandler.GetMe"] >>

\* A chain that holds every middleware registered anywhere.
ChainAt_AnyUse(regs, i) ==
    { regs[j].mw : j \in { k \in 1..Len(regs) : regs[k].op = "use" } }

\* gin: a route gets the middleware its group holds when the route is
\* registered; a later Use does not reach it.
ChainAt(regs, i) ==
    { regs[j].mw : j \in { k \in 1..(i - 1) : regs[k].op = "use" /\ regs[k].group = regs[i].group } }

RouteTable(regs) ==
    { [method |-> regs[i].method, path |-> regs[i].path,
       handler |-> regs[i].handler, chain |-> ChainAt(regs, i)] :
      i \in { k \in 1..Len(regs) : regs[k].op = "route" } }

Routes == RouteTable(Registrations)

Route(method, path) == CHOOSE r \in Routes : r.method = method /\ r.path = path
RouteOfHandler(h) == CHOOSE r \in Routes : r.handler = h
Gated(r) == "AuthMiddleware" \in r.chain

-----------------------------------------------------------------------------
(* internal/repository/postgres: the stores, as queries over the tables.    *)

Nil == [nil |-> TRUE]

\* A lookup by id alone, without the tenant in the WHERE clause.
ChannelStore_GetByID_AnyTenant(tenantID, channelID) ==
    LET rows == { c \in channels : c.id = channelID }
    IN IF rows = {} THEN Nil ELSE CHOOSE c \in rows : TRUE

\* ChannelStore.GetByID: WHERE id = $1 AND tenant_id = $2; nil on no rows.
ChannelStore_GetByID(tenantID, channelID) ==
    LET rows == { c \in channels : c.id = channelID /\ c.tenant_id = tenantID }
    IN IF rows = {} THEN Nil ELSE CHOOSE c \in rows : TRUE

\* A listing without its WHERE clause.
ChannelStore_ListByTenant_AllTenants(tenantID) == channels

\* ChannelStore.ListByTenant: WHERE tenant_id = $1.
ChannelStore_ListByTenant(tenantID) == { c \in channels : c.tenant_id = tenantID }

\* ChannelStore.Create: the row inserted under a fresh uuid. The insert fails
\* when tenant_id names no tenant (the foreign key).
ChannelStore_Create(tenantID, name, id) ==
    IF tenantID \notin tenants
    THEN [err |-> TRUE, row |-> Nil, table |-> channels]
    ELSE LET row == [id |-> id, tenant_id |-> tenantID, name |-> name, created_at |-> now]
         IN [err |-> FALSE, row |-> row, table |-> channels \cup {row}]

\* MessageStore.Create: INSERT INTO messages (channel_id, sender_id, body);
\* the id comes from the sequence, and the tenantID parameter takes no part
\* in the statement. The insert fails when channel_id or sender_id names no
\* row (the foreign keys); the sequence value is spent all the same.
MessageStore_Create(tenantID, channelID, senderID, body) ==
    IF channelID \notin { c.id : c \in channels } \/ senderID \notin { u.id : u \in users }
    THEN [err |-> TRUE, row |-> Nil, table |-> messages]
    ELSE LET row == [id |-> nextMsgID, channel_id |-> channelID,
                     sender_id |-> senderID, body |-> body]
         IN [err |-> FALSE, row |-> row, table |-> messages \cup {row}]

\* ORDER BY id DESC LIMIT n over a set of message rows.
RECURSIVE OrderByIDDesc(_)
OrderByIDDesc(rows) ==
    IF rows = {} THEN <<>>
    ELSE LET top == CHOOSE m \in rows : \A o \in rows : o.id <= m.id
         IN <<top>> \o OrderByIDDesc(rows \ {top})

\* A LIMIT that lets one row more through.
Limit_OneMore(seq, n) == SubSeq(seq, 1, IF n + 1 < Len(seq) THEN n + 1 ELSE Len(seq))

Limit(seq, n) == SubSeq(seq, 1, IF n < Len(seq) THEN n ELSE Len(seq))

\* A listing that ignores the cursor: every page is the newest rows.
MessageStore_ListByChannel_NoCursor(tenantID, channelID, before, limit) ==
    Limit(OrderByIDDesc({ m \in messages : m.channel_id = channelID }), limit)

\* A cursor that lets the row of the cursor's own key through: id <= $2.
MessageStore_ListByChannel_Inclusive(tenantID, channelID, before, limit) ==
    LET rows == IF before > 0
                THEN { m \in messages : m.channel_id = channelID /\ m.id <= before }
                ELSE { m \in messages : m.channel_id = channelID }
    IN Limit(OrderByIDDesc(rows), limit)

\* MessageStore.ListByChannel: WHERE channel_id = $1 [AND id < $2]
\* ORDER BY id DESC LIMIT n; the tenantID parameter takes no part in either
\* statement.
MessageStore_ListByChannel(tenantID, channelID, before, limit) ==
    LET rows == IF before > 0
                THEN { m \in messages : m.channel_id = channelID /\ m.id < before }
                ELSE { m \in messages : m.channel_id = channelID }
    IN Limit(OrderByIDDesc(rows), limit)

\* An insert without the ON CONFLICT clause: a second row of a pair violates
\* the key and the statement fails.
MembershipStore_AddMember_NoConflictClause(channelID, userID, role) ==
    IF \/ \E m \in members : m.channel_id = channelID /\ m.user_id = userID
       \/ channelID \notin { c.id : c \in channels }
       \/ userID \notin { u.id : u \in users }
    THEN [err |-> TRUE, table |-> members]
    ELSE [err |-> FALSE,
          table |-> members \cup {[channel_id |-> channelID, user_id |-> userID, role |-> role]}]

\* An insert that overwrites the role of a row already there: ON CONFLICT
\* (channel_id, user_id) DO UPDATE SET role = EXCLUDED.role.
MembershipStore_AddMember_Upsert(channelID, userID, role) ==
    IF channelID \notin { c.id : c \in channels } \/ userID \notin { u.id : u \in users }
    THEN [err |-> TRUE, table |-> members]
    ELSE [err |-> FALSE,
          table |-> { m \in members : ~(m.channel_id = channelID /\ m.user_id = userID) }
                      \cup {[channel_id |-> channelID, user_id |-> userID, role |-> role]}]

\* MembershipStore.AddMember: INSERT ... ON CONFLICT (channel_id, user_id) DO
\* NOTHING. The insert fails when channel_id or user_id names no row.
MembershipStore_AddMember(channelID, userID, role) ==
    IF \E m \in members : m.channel_id = channelID /\ m.user_id = userID
    THEN [err |-> FALSE, table |-> members]
    ELSE IF channelID \notin { c.id : c \in channels } \/ userID \notin { u.id : u \in users }
    THEN [err |-> TRUE, table |-> members]
    ELSE [err |-> FALSE,
          table |-> members \cup {[channel_id |-> channelID, user_id |-> userID, role |-> role]}]

\* A delete that leaves the user out of its WHERE clause.
MembershipStore_RemoveMember_WholeChannel(channelID, userID) ==
    { m \in members : m.channel_id # channelID }

\* MembershipStore.RemoveMember: DELETE ... WHERE channel_id = $1 AND user_id = $2.
MembershipStore_RemoveMember(channelID, userID) ==
    { m \in members : ~(m.channel_id = channelID /\ m.user_id = userID) }

\* MembershipStore.ListMembers: WHERE channel_id = $1.
MembershipStore_ListMembers(channelID) == { m \in members : m.channel_id = channelID }

\* A lookup by id alone, the tenant left out of its WHERE clause.
UserStore_GetByID_AnyTenant(tenantID, userID) ==
    LET rows == { u \in users : u.id = userID }
    IN IF rows = {} THEN Nil ELSE CHOOSE u \in rows : TRUE

\* UserStore.GetByID: WHERE id = $1 AND tenant_id = $2; nil on no rows.
UserStore_GetByID(tenantID, userID) ==
    LET rows == { u \in users : u.id = userID /\ u.tenant_id = tenantID }
    IN IF rows = {} THEN Nil ELSE CHOOSE u \in rows : TRUE

\* A lookup that finds no row.
UserStore_GetByEmail_NoRows(email) == Nil

\* UserStore.GetByEmail: WHERE email = $1 (not tenant-scoped); nil on no rows.
UserStore_GetByEmail(email) ==
    LET rows == { u \in users : u.email = email }
    IN IF rows = {} THEN Nil ELSE CHOOSE u \in rows : TRUE

\* gen_random_uuid(): an id no row of the table carries yet.
TenantPool == {"tA", "tB", "tC", "tD"}
UserPool == {"u1", "u2", "u3", "u4"}
NewUUID(pool, used) == CHOOSE x \in pool \ used : TRUE

\* TenantStore.Create: INSERT INTO tenants (name, created_at) under a fresh id.
TenantStore_Create(name) ==
    LET row == [id |-> NewUUID(TenantPool, tenants), name |-> name]
    IN [err |-> FALSE, row |-> row, table |-> tenants \cup {row.id}]

\* Without the constraint on users.email.
UsersEmailKey_Absent(email) == FALSE

\* The schema of the users table: email carries a UNIQUE constraint, an
\* insert of an email some row holds is refused.
UsersEmailKey(email) == \E u \in users : u.email = email

\* An insert that leaves the tenant id out of the row.
UserStore_Create_TenantDropped(tenantID, email, displayName, passwordHash) ==
    IF tenantID \notin tenants \/ UsersEmailKey(email)
    THEN [err |-> TRUE, row |-> Nil, table |-> users]
    ELSE LET row == [id |-> NewUUID(UserPool, { u.id : u \in users }), tenant_id |-> NoTenant,
                     email |-> email, password_hash |-> passwordHash]
         IN [err |-> FALSE, row |-> row, table |-> users \cup {row}]

\* UserStore.Create: INSERT INTO users (tenant_id, email, display_name,
\* password_hash, created_at) under a fresh id. The insert fails when
\* tenant_id names no tenant (the foreign key) or the email is taken.
UserStore_Create(tenantID, email, displayName, passwordHash) ==
    IF tenantID \notin tenants \/ UsersEmailKey(email)
    THEN [err |-> TRUE, row |-> Nil, table |-> users]
    ELSE LET row == [id |-> NewUUID(UserPool, { u.id : u \in users }), tenant_id |-> tenantID,
                     email |-> email, password_hash |-> passwordHash]
         IN [err |-> FALSE, row |-> row, table |-> users \cup {row}]

-----------------------------------------------------------------------------
(* Requests, and what is kept of the last one served.                       *)

\* A query parameter: absent, an integer, or text that is no integer.
QAbsent == [k |-> "absent"]
QBad == [k |-> "bad"]
QInt(n) == [k |-> "int", n |-> n]

\* A JSON body: ok is FALSE for a missing or unparseable body; a field left
\* out is the empty string.
NoBody == [ok |-> FALSE, name |-> "", content |-> "", role |-> "", email |-> "", password |-> ""]
Body(name, content, role, email, password) ==
    [ok |-> TRUE, name |-> name, content |-> content, role |-> role,
     email |-> email, password |-> password]

\* A request: method and route path, the Authorization header, the :id path
\* parameter, the query parameters before and limit, the JSON body, and the
\* tenant and user ids the client wrote into its body or query string.
Request(method, path, header, id, before, limit, body, claimed) ==
    [method |-> method, path |-> path, header |-> header, id |-> id,
     before |-> before, limit |-> limit, body |-> body, claimed |-> claimed]

NoClaimed == [tenant_id |-> NoTenant, user_id |-> "nil-user"]
BadUUID == "not-a-uuid"
\* uuid.Parse
UUIDParses(id) == id # BadUUID

Idle == [served |-> FALSE]

\* The rows held by the tables that grow.
Rows == Cardinality(channels) + Cardinality(messages) + Cardinality(members)

\* A data-access call: the store method, the tenantID argument ("-" when the
\* method takes none) and the other arguments.
Call(op, tenantID, args) == [op |-> op, tenant |-> tenantID, args |-> args]

\* The gate in front of a route: AuthMiddleware when the route's chain holds
\* it, nothing otherwise.
Gate(req) ==
    IF Gated(Route(req.method, req.path))
    THEN AuthMiddleware(req.header, jwtSecret, now)
    ELSE [aborted |-> FALSE, status |-> 0, body |-> [none |-> TRUE], keys |-> NoPrincipal,
          parse |-> [err |-> "not-run", claims |-> NoClaims,
                     keyGiven |-> FALSE, verified |-> FALSE]]

Served(req, g, ran, calls, status, body) ==
    last' = [served |-> TRUE, req |-> req, at |-> now, keys |-> g.keys, parse |-> g.parse,
             ran |-> ran, calls |-> calls, status |-> status, body |-> body]

\* c.AbortWithStatusJSON in the gate: the chain stops, no handler runs.
Aborted(req, g) ==
    /\ Served(req, g, FALSE, <<>>, g.status, g.body)
    /\ UNCHANGED dbVars

IsRoute(req, handler) ==
    /\ \E r \in Routes : r.method = req.method /\ r.path = req.path
    /\ Route(req.method, req.path).handler = handler

-----------------------------------------------------------------------------
(* internal/api: the handlers, each behind the gate of its route.           *)

\* The default page size and the cap of MessageHandler.List.
DefaultLimit == 50
LimitCap == 100

\* The lifetime Signup and Login give a token: 24 hours.
TokenTTL == 24 * 3600 * TicksPerSecond

\* GET /v1/health
Health(req) ==
    /\ IsRoute(req, "health")
    /\ LET g == Gate(req)
       IN IF g.aborted THEN Aborted(req, g)
          ELSE Served(req, g, TRUE, <<>>, 200, [status |-> "ok"]) /\ UNCHANGED dbVars
    /\ UNCHANGED <<jwtSecret, now, tok, grant, procVars>>

\* ChannelHandler.Create
ChannelCreate(req, newID) ==
    /\ IsRoute(req, "channelHandler.Create")
    /\ newID \notin { c.id : c \in channels }
    /\ LET g == Gate(req)
           tenantID == GetTenantID(Context(req, g.keys))
           r == ChannelStore_Create(tenantID, req.body.name, newID)
           calls == <<Call("ChannelStore.Create", tenantID, <<req.body.name>>)>>
       IN IF g.aborted THEN Aborted(req, g)
          ELSE IF ~req.body.ok \/ req.body.name = ""
          THEN Served(req, g, TRUE, <<>>, 400, Err("binding")) /\ UNCHANGED dbVars
          ELSE IF r.err
          THEN Served(req, g, TRUE, calls, 500, Err("failed to create channel"))
               /\ UNCHANGED dbVars
          ELSE /\ Rows < MaxRows
               /\ channels' = r.table
               /\ Served(req, g, TRUE, calls, 201, [channel |-> r.row])
               /\ UNCHANGED <<tenants, users, messages, members, nextMsgID>>
    /\ UNCHANGED <<jwtSecret, now, tok, grant, procVars>>

\* ChannelHandler.List
ChannelList(req) ==
    /\ IsRoute(req, "channelHandler.List")
    /\ LET g == Gate(req)
           tenantID == GetTenantID(Context(req, g.keys))
       IN IF g.aborted THEN Aborted(req, g)
          ELSE Served(req, g, TRUE, <<Call("ChannelStore.ListByTenant", tenantID, <<>>)>>,
                      200, [channels |-> ChannelStore_ListByTenant(tenantID)])
               /\ UNCHANGED dbVars
    /\ UNCHANGED <<jwtSecret, now, tok, grant, procVars>>

\* ChannelHandler.GetByID
ChannelGetByID(req) ==
    /\ IsRoute(req, "channelHandler.GetByID")
    /\ LET g == Gate(req)
           tenantID == GetTenantID(Context(req, g.keys))
           ch == ChannelStore_GetByID(tenantID, req.id)
           calls == <<Call("ChannelStore.GetByID", tenantID, <<req.id>>)>>
       IN IF g.aborted THEN Aborted(req, g)
          ELSE /\ IF ~UUIDParses(req.id)
                  THEN Served(req, g, TRUE, <<>>, 400, Err("invalid channel id"))
                  ELSE IF ch = Nil
                  THEN Served(req, g, TRUE, calls, 404, Err("channel not found"))
                  ELSE Served(req, g, TRUE, calls, 200, [channel |-> ch])
               /\ UNCHANGED dbVars
    /\ UNCHANGED <<jwtSecret, now, tok, grant, procVars>>

\* MessageHandler.Create
MessageCreate(req) ==
    /\ IsRoute(req, "messageHandler.Create")
    /\ LET g == Gate(req)
           userID == GetUserID(Context(req, g.keys))
           tenantID == GetTenantID(Context(req, g.keys))
           r == MessageStore_Create(tenantID, req.id, userID, req.body.content)
           calls == <<Call("MessageStore.Create", tenantID, <<req.id, userID, req.body.content>>)>>
       IN IF g.aborted THEN Aborted(req, g)
          ELSE IF ~req.body.ok \/ req.body.content = ""
          THEN Served(req, g, TRUE, <<>>, 400, Err("binding")) /\ UNCHANGED dbVars
          ELSE IF ~UUIDParses(req.id)
          THEN Served(req, g, TRUE, <<>>, 400, Err("invalid channel ID")) /\ UNCHANGED dbVars
          ELSE /\ Rows < MaxRows
               /\ nextMsgID <= MaxRows
               /\ nextMsgID' = nextMsgID + 1
               /\ messages' = r.table
               /\ IF r.err
                  THEN Served(req, g, TRUE, calls, 500, Err("failed to create message"))
                  ELSE Served(req, g, TRUE, calls, 201, [message |-> r.row])
               /\ UNCHANGED <<tenants, users, channels, members>>
    /\ UNCHANGED <<jwtSecret, now, tok, grant, procVars>>

\* A limit check that lets zero and negative numbers through.
LimitOK_NoMinimum(q) == q # QBad

\* MessageHandler.List, the check of "limit": absent, or an integer of at
\* least 1.
LimitOK(q) == q = QAbsent \/ (q # QBad /\ q.n >= 1)

\* A limit taken as sent, without the cap.
ListLimit_NoCap(q) == IF q = QAbsent THEN DefaultLimit ELSE q.n

\* MessageHandler.List, the limit handed to the store: the default when the
\* parameter is absent, the cap when it is greater than the cap.
ListLimit(q) ==
    IF q = QAbsent THEN DefaultLimit
    ELSE IF q.n > LimitCap THEN LimitCap ELSE q.n

\* MessageHandler.List
MessageList(req) ==
    /\ IsRoute(req, "messageHandler.List")
    /\ LET g == Gate(req)
           before == IF req.before = QAbsent THEN 0 ELSE req.before.n
           limit == ListLimit(req.limit)
           tenantID == GetTenantID(Context(req, g.keys))
           calls == <<Call("MessageStore.ListByChannel", tenantID, <<req.id, before, limit>>)>>
       IN IF g.aborted THEN Aborted(req, g)
          ELSE /\ IF ~UUIDParses(req.id)
                  THEN Served(req, g, TRUE, <<>>, 400, Err("invalid channel ID"))
                  ELSE IF req.before = QBad
                  THEN Served(req, g, TRUE, <<>>, 400, Err("invalid 'before' parameter"))
                  ELSE IF ~LimitOK(req.limit)
                  THEN Served(req, g, TRUE, <<>>, 400, Err("invalid 'limit' parameter"))
                  ELSE Served(req, g, TRUE, calls, 200,
                              [messages |-> MessageStore_ListByChannel(tenantID, req.id, before, limit)])
               /\ UNCHANGED dbVars
    /\ UNCHANGED <<jwtSecret, now, tok, grant, procVars>>

\* MembershipHandler.Join
Join(req) ==
    /\ IsRoute(req, "membershipHandler.Join")
    /\ LET g == Gate(req)
           userID == GetUserID(Context(req, g.keys))
           role == IF ~req.body.ok \/ req.body.role = "" THEN "member" ELSE req.body.role
           r == MembershipStore_AddMember(req.id, userID, role)
           calls == <<Call("MembershipStore.AddMember", "-", <<req.id, userID, role>>)>>
       IN IF g.aborted THEN Aborted(req, g)
          ELSE IF ~UUIDParses(req.id)
          THEN Served(req, g, TRUE, <<>>, 400, Err("invalid channel id")) /\ UNCHANGED dbVars
          ELSE /\ members' = r.table
               /\ IF r.err
                  THEN Served(req, g, TRUE, calls, 500, Err("failed to join channel"))
                  ELSE Served(req, g, TRUE, calls, 204, [none |-> TRUE])
               /\ UNCHANGED <<tenants, users, channels, messages, nextMsgID>>
    /\ UNCHANGED <<jwtSecret, now, tok, grant, procVars>>

\* A join that reaches the insert while the tables are below their bound, or
\* one that does not reach it.
JoinFits(req) == (UUIDParses(req.id) /\ ~Gate(req).aborted) => Rows < MaxRows

\* MembershipHandler.Leave
Leave(req) ==
    /\ IsRoute(req, "membershipHandler.Leave")
    /\ LET g == Gate(req)
           userID == GetUserID(Context(req, g.keys))
           calls == <<Call("MembershipStore.RemoveMember", "-", <<req.id, userID>>)>>
       IN IF g.aborted THEN Aborted(req, g)
          ELSE IF ~UUIDParses(req.id)
          THEN Served(req, g, TRUE, <<>>, 400, Err("invalid channel id")) /\ UNCHANGED dbVars
          ELSE /\ members' = MembershipStore_RemoveMember(req.id, userID)
               /\ Served(req, g, TRUE, calls, 204, [none |-> TRUE])
               /\ UNCHANGED <<tenants, users, channels, messages, nextMsgID>>
    /\ UNCHANGED <<jwtSecret, now, tok, grant, procVars>>

\* MembershipHandler.ListMembers
ListMembers(req) ==
    /\ IsRoute(req, "membershipHandler.ListMembers")
    /\ LET g == Gate(req)
           calls == <<Call("MembershipStore.ListMembers", "-", <<req.id>>)>>
       IN IF g.aborted THEN Aborted(req, g)
          ELSE /\ IF ~UUIDParses(req.id)
                  THEN Served(req, g, TRUE, <<>>, 400, Err("invalid channel id"))
                  ELSE Served(req, g, TRUE, calls, 200,
                              [members |-> MembershipStore_ListMembers(req.id)])
               /\ UNCHANGED dbVars
    /\ UNCHANGED <<jwtSecret, now, tok, grant, procVars>>

\* UserHandler.GetMe
GetMe(req) ==
    /\ IsRoute(req, "userHandler.GetMe")
    /\ LET g == Gate(req)
           userID == GetUserID(Context(req, g.keys))
           tenantID == GetTenantID(Context(req, g.keys))
           user == UserStore_GetByID(tenantID, userID)
           calls == <<Call("UserStore.GetByID", tenantID, <<userID>>)>>
       IN IF g.aborted THEN Aborted(req, g)
          ELSE /\ IF user = Nil
                  THEN Served(req, g, TRUE, calls, 404, Err("user not found"))
                  ELSE Served(req, g, TRUE, calls, 200,
                              [user |-> [id |-> user.id, tenant_id |-> user.tenant_id,
                                         email |-> user.email]])
               /\ UNCHANGED dbVars
    /\ UNCHANGED <<jwtSecret, now, tok, grant, procVars>>

NoToken == [none |-> TRUE]
NoGrant == [none |-> TRUE]
Grant(userID, tenantID, email, ttl, clock) ==
    [user_id |-> userID, tenant_id |-> tenantID, email |-> email, ttl |-> ttl, at |-> clock]

\* A comparison that accepts every password.
CompareHashAndPassword_AcceptAll(hash, password) == TRUE

\* bcrypt.CompareHashAndPassword
CompareHashAndPassword(hash, password) == hash.pw = password

\* AuthHandler.Login
Login(req) ==
    /\ IsRoute(req, "authHandler.Login")
    /\ LET g == Gate(req)
           user == UserStore_GetByEmail(req.body.email)
           calls == <<Call("UserStore.GetByEmail", "-", <<req.body.email>>)>>
           token == GenerateToken(user.id, user.tenant_id, user.email, jwtSecret, TokenTTL, now)
       IN IF g.aborted THEN Aborted(req, g) /\ UNCHANGED <<tok, grant>>
          ELSE /\ UNCHANGED dbVars
               /\ IF ~req.body.ok \/ req.body.email = "" \/ req.body.password = ""
                  THEN Served(req, g, TRUE, <<>>, 400, Err("binding")) /\ UNCHANGED <<tok, grant>>
                  ELSE IF user = Nil
                  THEN Served(req, g, TRUE, calls, 401, Err("invalid email or password"))
                       /\ UNCHANGED <<tok, grant>>
                  ELSE IF ~CompareHashAndPassword(user.password_hash, req.body.password)
                  THEN Served(req, g, TRUE, calls, 401, Err("invalid email or password"))
                       /\ UNCHANGED <<tok, grant>>
                  ELSE /\ Served(req, g, TRUE, calls, 200, [token |-> token])
                       /\ tok' = token
                       /\ grant' = Grant(user.id, user.tenant_id, user.email, TokenTTL, now)
    /\ UNCHANGED <<jwtSecret, now, procVars>>

\* Time passes.
Tick(t) ==
    /\ t > now
    /\ now' = t
    /\ UNCHANGED <<jwtSecret, tok, grant, last, procVars>>
    /\ UNCHANGED dbVars

\* The response is written and the request is over.
Respond ==
    /\ last # Idle
    /\ last' = Idle
    /\ UNCHANGED <<jwtSecret, now, tok, grant, procVars>>
    /\ UNCHANGED dbVars

\* GenerateToken, called with arguments of the caller's choosing.
IssueToken(userID, tenantID, email, ttl) ==
    /\ tok' = GenerateToken(userID, tenantID, email, jwtSecret, ttl, now)
    /\ grant' = Grant(userID, tenantID, email, ttl, now)
    /\ last' = Idle
    /\ UNCHANGED <<jwtSecret, now, procVars>>
    /\ UNCHANGED dbVars

-----------------------------------------------------------------------------
(* MessageHandler.Create with its INSERT in two steps: the statement takes  *)
(* the next value of the sequence when it runs, and its row is visible to   *)
(* other statements only once it has committed. Between the two, the        *)
(* statements of other requests may run and commit.                         *)

\* MessageHandler.Create up to the running INSERT: the sequence value is
\* taken, the foreign keys are checked, the row is not visible yet.
MessageCreateBegin(p, req) ==
    /\ \A i \in inserts : i.proc # p
    /\ IsRoute(req, "messageHandler.Create")
    /\ LET g == Gate(req)
           userID == GetUserID(Context(req, g.keys))
           tenantID == GetTenantID(Context(req, g.keys))
           r == MessageStore_Create(tenantID, req.id, userID, req.body.content)
           calls == <<Call("MessageStore.Create", tenantID, <<req.id, userID, req.body.content>>)>>
       IN IF g.aborted THEN Aborted(req, g) /\ UNCHANGED inserts
          ELSE IF ~req.body.ok \/ req.body.content = ""
          THEN Served(req, g, TRUE, <<>>, 400, Err("binding")) /\ UNCHANGED <<dbVars, inserts>>
          ELSE IF ~UUIDParses(req.id)
          THEN Served(req, g, TRUE, <<>>, 400, Err("invalid channel ID"))
               /\ UNCHANGED <<dbVars, inserts>>
          ELSE /\ nextMsgID' = nextMsgID + 1
               /\ IF r.err
                  THEN Served(req, g, TRUE, calls, 500, Err("failed to create message"))
                       /\ UNCHANGED inserts
                  ELSE /\ inserts' = inserts \cup
                              {[proc |-> p, req |-> req, gate |-> g, calls |-> calls, row |-> r.row]}
                       /\ UNCHANGED last
               /\ UNCHANGED <<tenants, users, channels, messages, members>>
    /\ UNCHANGED <<jwtSecret, now, tok, grant, signups, walk, page, cancelled, flying>>

\* The INSERT commits: the row is in the table, the handler answers 201.
MessageCreateCommit(p) ==
    /\ \E i \in inserts :
          /\ i.proc = p
          /\ messages' = messages \cup {i.row}
          /\ inserts' = inserts \ {i}
          /\ Served(i.req, i.gate, TRUE, i.calls, 201, [message |-> i.row])
    /\ UNCHANGED <<tenants, users, channels, members, nextMsgID>>
    /\ UNCHANGED <<jwtSecret, now, tok, grant, signups, walk, page, cancelled, flying>>

-----------------------------------------------------------------------------
(* AuthHandler.Signup, statement by statement: requests run concurrently,   *)
(* and between the email lookup, the tenant insert and the user insert of   *)
(* one request the statements of another may run.                           *)

\* signupRequest and its binding rules: email required and well-formed,
\* password of at least MinPasswordLen characters, display_name and
\* tenant_name required.
SignupBody(email, password, displayName, tenantName) ==
    [ok |-> TRUE, email |-> email, password |-> password,
     display_name |-> displayName, tenant_name |-> tenantName]
MinPasswordLen == 8
PasswordLen(password) ==
    CASE password = "" -> 0
      [] password = "short" -> 5
      [] password = "pw-a" -> 4
      [] password = "pw-b" -> 4
      [] OTHER -> 10
ValidEmail(email) == email \in Emails
SignupBinds(body) ==
    /\ body.ok
    /\ ValidEmail(body.email)
    /\ PasswordLen(body.password) >= MinPasswordLen
    /\ body.display_name # ""
    /\ body.tenant_name # ""

\* bcrypt.GenerateFromPassword
GenerateFromPassword(password, salt) == [salt |-> salt, pw |-> password]

\* What a finished signup leaves in its process: the request, whether a user
\* row held its email when the request came in, the rows it created on the
\* way and the response.
SignupDone(req, existed, tenant, user, status, body) ==
    [pc |-> "done", req |-> req, existed |-> existed, tenant |-> tenant, user |-> user,
     status |-> status, body |-> body]

\* The context of the request a process serves: gin's c.Request.Context(),
\* which net/http cancels when the client's connection goes away.
RequestContext(p) == p

\* context.Background(): never done.
Background == "background"

\* ctx.Done() is closed.
CtxDone(ctx) == ctx \in cancelled

\* The context Signup hands to its store calls, had it been the background one.
SignupCtx_Background(p) == Background

\* The context Signup hands to its store calls.
SignupCtx(p) == RequestContext(p)

\* Signup, from binding to the email lookup.
SignupLookup(p, req) ==
    /\ signups[p] = SignupIdle
    /\ IsRoute(req, "authHandler.Signup")
    /\ LET g == Gate(req)
           existing == UserStore_GetByEmail(req.body.email)
           existed == \E u \in users : u.email = req.body.email
           done(st, b) == SignupDone(req, existed, Nil, Nil, st, b)
       IN signups' = [signups EXCEPT ![p] =
              IF g.aborted THEN done(g.status, g.body)
              ELSE IF ~SignupBinds(req.body)
              THEN done(400, Err("binding"))
              ELSE IF existing # Nil
              THEN done(409, Err("email already registered"))
              ELSE [pc |-> "tenant", req |-> req, existed |-> existed]]
    /\ UNCHANGED <<jwtSecret, now, tok, grant, last, inserts, walk, page, cancelled, flying>>
    /\ UNCHANGED dbVars

\* The pool sends the statement of the store call a signup is about to make.
\* With the call's context done nothing is sent: the call fails first.
SignupSend(p) ==
    /\ signups[p].pc \in {"tenant", "user"}
    /\ p \notin flying
    /\ ~CtxDone(SignupCtx(p))
    /\ flying' = flying \cup {p}
    /\ UNCHANGED <<jwtSecret, now, tok, grant, last, signups, inserts, walk, page, cancelled>>
    /\ UNCHANGED dbVars

\* The client of a signup goes away while the handler is between or inside
\* its store calls: the context of the request is done from here on.
RequestCancel(p) ==
    /\ signups[p].pc \in {"tenant", "user"}
    /\ p \notin cancelled
    /\ cancelled' = cancelled \cup {p}
    /\ UNCHANGED <<jwtSecret, now, tok, grant, last, signups, inserts, walk, page, flying>>
    /\ UNCHANGED dbVars

\* Signup, the password hashed and the tenant inserted. With the context done
\* the call returns an error and the handler answers 500; the statement took
\* effect or not when it had been sent, and did not when it had not.
SignupCreateTenant(p, salt) ==
    /\ signups[p].pc = "tenant"
    /\ TenantPool \ tenants # {}
    /\ LET me == signups[p]
           r == TenantStore_Create(me.req.body.tenant_name)
       IN IF CtxDone(SignupCtx(p))
          THEN /\ tenants' \in (IF p \in flying THEN {tenants, r.table} ELSE {tenants})
               /\ signups' = [signups EXCEPT ![p] =
                      SignupDone(me.req, me.existed, Nil, Nil, 500, Err("signup failed"))]
          ELSE /\ tenants' = r.table
               /\ signups' = [signups EXCEPT ![p] =
                      [pc |-> "user", req |-> me.req, existed |-> me.existed,
                       hash |-> GenerateFromPassword(me.req.body.password, salt),
                       tenant |-> r.row]]
    /\ flying' = flying \ {p}
    /\ UNCHANGED <<jwtSecret, now, tok, grant, last, inserts, walk, page, cancelled>>
    /\ UNCHANGED <<users, channels, messages, members, nextMsgID>>

\* Signup, from the user insert to the response.
SignupCreateUser(p) ==
    /\ signups[p].pc = "user"
    /\ UserPool \ { u.id : u \in users } # {}
    /\ LET me == signups[p]
           r == UserStore_Create(me.tenant.id, me.req.body.email,
                                 me.req.body.display_name, me.hash)
           token == GenerateToken(r.row.id, me.tenant.id, r.row.email, jwtSecret, TokenTTL, now)
           failed == SignupDone(me.req, me.existed, me.tenant, Nil, 500, Err("signup failed"))
       IN IF CtxDone(SignupCtx(p))
          THEN /\ users' \in (IF p \in flying /\ ~r.err THEN {users, r.table} ELSE {users})
               /\ signups' = [signups EXCEPT ![p] = failed]
               /\ UNCHANGED <<tok, grant>>
          ELSE IF r.err
          THEN /\ signups' = [signups EXCEPT ![p] = failed]
               /\ UNCHANGED <<users, tok, grant>>
          ELSE /\ users' = r.table
               /\ signups' = [signups EXCEPT ![p] =
                      SignupDone(me.req, me.existed, me.tenant, r.row, 201, [token |-> token])]
               /\ tok' = token
               /\ grant' = Grant(r.row.id, me.tenant.id, r.row.email, TokenTTL, now)
    /\ flying' = flying \ {p}
    /\ UNCHANGED <<jwtSecret, now, last, inserts, walk, page, cancelled>>
    /\ UNCHANGED <<tenants, channels, messages, members, nextMsgID>>

\* The response of a signup is written and its goroutine ends; the context of
\* the request ends with it.
SignupReturn(p) ==
    /\ signups[p].pc = "done"
    /\ signups' = [signups EXCEPT ![p] = SignupIdle]
    /\ cancelled' = cancelled \ {p}
    /\ flying' = flying \ {p}
    /\ UNCHANGED <<jwtSecret, now, tok, grant, last, inserts, walk, page>>
    /\ UNCHANGED dbVars

-----------------------------------------------------------------------------
(* What a client can send.                                                  *)

BearerHeader(t) == <<W("Bearer"), SP, J(t)>>

\* Claims an attacker writes from nothing.
AttackerClaims ==
    [user_id |-> "u1", tenant_id |-> "tA", email |-> "a@x.com",
     exp |-> 4 * TokenTTL, iat |-> 0, iss |-> "echostream"]

\* The claims of a token with one claim changed.
Mutations(c) ==
    { [c EXCEPT !.tenant_id = t] : t \in TenantIDs \ {c.tenant_id} }
      \cup { [c EXCEPT !.exp = c.exp + TokenTTL] }

\* Tokens made from the claims c and, where there is one, a signature s seen
\* on the wire: signed under a key of the attacker's, or naming an algorithm
\* outside the HMAC family with signature bytes of any kind, those the server's
\* own MAC would give included.
Forged(c, s) ==
    { [alg |-> a, claims |-> c, sig |-> HMAC(a, AttackerKey, a, c)] : a \in {"HS256", "HS384"} }
      \cup UNION { { [alg |-> a, claims |-> c, sig |-> x] :
                        x \in {s, HMAC("HS256", jwtSecret, a, c)} } :
                      a \in {"none", "RS256", "XX"} }

\* The tokens a client holding t can present: t itself, t with its claims
\* changed under the old signature, and forgeries.
TokensFrom(t) ==
    IF t = NoToken
    THEN Forged(AttackerClaims, NoSig)
    ELSE {t} \cup { [t EXCEPT !.claims = c] : c \in Mutations(t.claims) }
             \cup Forged(t.claims, t.sig)
             \cup UNION { Forged([t.claims EXCEPT !.tenant_id = x], t.sig) :
                            x \in TenantIDs \ {t.claims.tenant_id} }

\* The Authorization headers: none, shapes that are not "Bearer <token>", and
\* Bearer headers with each token.
HeadersFrom(t) ==
    { <<>>, <<W("Bearer")>>, <<W("Bearer"), SP>>, <<W("Bearer"), SP, W("abc")>>,
      <<W("Basic"), SP, W("abc")>> }
      \cup { BearerHeader(x) : x \in TokensFrom(t) }
      \cup { <<W(w), SP, J(x)>> : w \in {"bearer", "BEARER", "Basic"}, x \in {t} \ {NoToken} }
      \cup { <<J(x)>> : x \in {t} \ {NoToken} }
      \cup { <<W("Bearer"), SP, SP, J(x)>> : x \in {t} \ {NoToken} }

-----------------------------------------------------------------------------
(* The token specification: GenerateToken and the gate, on every input.     *)

TokenInit ==
    /\ jwtSecret \in Secrets
    /\ now = 0
    /\ tenants = TenantIDs
    /\ users = SeedUsers
    /\ channels = {}
    /\ messages = {}
    /\ members = {}
    /\ nextMsgID = 1
    /\ tok = NoToken
    /\ grant = NoGrant
    /\ last = Idle
    /\ signups = [p \in Procs |-> SignupIdle]
    /\ inserts = {}
    /\ walk = NoWalk
    /\ page = NoPage
    /\ cancelled = {}
    /\ flying = {}

MeRequest(header) ==
    Request("GET", "/v1/users/me", header, "", QAbsent, QAbsent, NoBody, NoClaimed)

\* Requests are served one at a time, and the clock moves between them.
TokenNext ==
    \/ Respond
    \/ last = Idle /\ now < MaxTime /\ Tick(now + 1)
    \/ /\ last = Idle
       /\ \E u \in UserIDs, tn \in TenantIDs, e \in Emails, ttl \in 1..MaxTTL :
             IssueToken(u, tn, e, ttl)
    \/ /\ last = Idle
       /\ \E h \in HeadersFrom(tok) : GetMe(MeRequest(h))

SpecToken == TokenInit /\ [][TokenNext]_vars

-----------------------------------------------------------------------------
(* The tenant specification: the two seeded tenants' users log in and work  *)
(* on channels, messages and memberships with the tokens they were given.   *)

ApiInit == TokenInit /\ jwtSecret = "dev-secret"

\* A request to the route of a handler.
ReqFor(handler, header, id, before, limit, body, claimed) ==
    Request(RouteOfHandler(handler).method, RouteOfHandler(handler).path,
            header, id, before, limit, body, claimed)

\* A request carrying the held token, with nothing in query or body.
Authed(handler, id) ==
    ReqFor(handler, BearerHeader(tok), id, QAbsent, QAbsent, NoBody, NoClaimed)

LoginRequest(email, password) ==
    ReqFor("authHandler.Login", <<>>, "", QAbsent, QAbsent,
           Body("", "", "", email, password), NoClaimed)

PathIDs == ChannelIDs \cup {BadUUID}

TenantNext ==
    \/ Respond
    \/ /\ last = Idle
       /\ \E e \in Emails, pw \in Passwords : Login(LoginRequest(e, pw))
    \/ /\ last = Idle /\ tok # NoToken
       /\ \E id \in ChannelIDs :
             ChannelCreate([Authed("channelHandler.Create", "") EXCEPT
                               !.body = Body("general", "", "", "", "")], id)
    \/ /\ last = Idle /\ tok # NoToken
       /\ \E id \in PathIDs : ChannelGetByID(Authed("channelHandler.GetByID", id))
    \/ /\ last = Idle /\ tok # NoToken
       /\ \E id \in PathIDs :
             MessageCreate([Authed("messageHandler.Create", id) EXCEPT
                               !.body = Body("", "hi", "", "", "")])
    \/ /\ last = Idle /\ tok # NoToken
       /\ \E id \in PathIDs, b \in {QAbsent, QInt(2)}, l \in {QAbsent, QInt(1)} :
             MessageList([Authed("messageHandler.List", id) EXCEPT !.before = b, !.limit = l])
    \/ /\ last = Idle /\ tok # NoToken
       /\ \E id \in PathIDs :
             /\ JoinFits(Authed("membershipHandler.Join", id))
             /\ Join(Authed("membershipHandler.Join", id))
    \/ /\ last = Idle /\ tok # NoToken
       /\ \E id \in PathIDs : Leave(Authed("membershipHandler.Leave", id))
    \/ /\ last = Idle /\ tok # NoToken
       /\ \E id \in PathIDs : ListMembers(Authed("membershipHandler.ListMembers", id))

SpecTenant == ApiInit /\ [][TenantNext]_vars

-----------------------------------------------------------------------------
(* The gate specification: every route, asked for with every kind of        *)
(* Authorization header, before and after the tokens of the first day       *)
(* expire.                                                                   *)

\* Tenant and user ids a client writes into its body or query string.
ClaimedIDs ==
    {NoClaimed} \cup { [tenant_id |-> t, user_id |-> u] : t \in TenantIDs, u \in {"u2"} }

GateIDs == {"c1", BadUUID}

\* A request with nothing but a header and the ids the client claims.
Plain(handler, header, id, claimed) ==
    ReqFor(handler, header, id, QAbsent, QAbsent, NoBody, claimed)

\* The headers sent with a claimed id: the claim rides on the held token.
HeadersWith(claimed) ==
    IF claimed = NoClaimed THEN HeadersFrom(tok)
    ELSE { BearerHeader(x) : x \in {tok} \ {NoToken} }

GateNext ==
    \/ Respond
    \/ last = Idle /\ now < TokenTTL /\ Tick(now + TokenTTL)
    \/ /\ last = Idle
       /\ \E e \in Emails : \E u \in { x \in SeedUsers : x.email = e } :
             Login(LoginRequest(e, u.password_hash.pw))
    \/ /\ last = Idle
       /\ \E h \in HeadersFrom(tok) : Health(Plain("health", h, "", NoClaimed))
    \/ /\ last = Idle
       /\ \E cl \in ClaimedIDs : \E h \in HeadersWith(cl) :
             ChannelCreate([Plain("channelHandler.Create", h, "", cl) EXCEPT
                               !.body = Body("general", "", "", "", "")], "c1")
    \/ /\ last = Idle
       /\ \E cl \in ClaimedIDs : \E h \in HeadersWith(cl) :
             ChannelList(Plain("channelHandler.List", h, "", cl))
    \/ /\ last = Idle
       /\ \E cl \in ClaimedIDs, id \in GateIDs : \E h \in HeadersWith(cl) :
             ChannelGetByID(Plain("channelHandler.GetByID", h, id, cl))
    \/ /\ last = Idle
       /\ \E cl \in ClaimedIDs : \E h \in HeadersWith(cl) :
             MessageCreate([Plain("messageHandler.Create", h, "c1", cl) EXCEPT
                               !.body = Body("", "hi", "", "", "")])
    \/ /\ last = Idle
       /\ \E cl \in ClaimedIDs : \E h \in HeadersWith(cl) :
             MessageList(Plain("messageHandler.List", h, "c1", cl))
    \/ /\ last = Idle
       /\ \E h \in HeadersFrom(tok) :
             /\ JoinFits(Plain("membershipHandler.Join", h, "c1", NoClaimed))
             /\ Join(Plain("membershipHandler.Join", h, "c1", NoClaimed))
    \/ /\ last = Idle
       /\ \E h \in HeadersFrom(tok) : Leave(Plain("membershipHandler.Leave", h, "c1", NoClaimed))
    \/ /\ last = Idle
       /\ \E h \in HeadersFrom(tok) :
             ListMembers(Plain("membershipHandler.ListMembers", h, "c1", NoClaimed))
    \/ /\ last = Idle
       /\ \E cl \in ClaimedIDs : \E h \in HeadersWith(cl) :
             GetMe(Plain("userHandler.GetMe", h, "", cl))

SpecGate == ApiInit /\ [][GateNext]_vars

-----------------------------------------------------------------------------
(* The signup specification: an empty database, signups that run            *)
(* concurrently, logins, and requests with the tokens handed out.           *)

\* The tenants the signups of this specification may create in all.
MaxTenants == 3

EmptyInit ==
    /\ jwtSecret = "dev-secret"
    /\ now = 0
    /\ tenants = {}
    /\ users = {}
    /\ channels = {}
    /\ messages = {}
    /\ members = {}
    /\ nextMsgID = 1
    /\ tok = NoToken
    /\ grant = NoGrant
    /\ last = Idle
    /\ signups = [p \in Procs |-> SignupIdle]
    /\ inserts = {}
    /\ walk = NoWalk
    /\ page = NoPage
    /\ cancelled = {}
    /\ flying = {}

SignupRequest(email, password) ==
    ReqFor("authHandler.Signup", <<>>, "", QAbsent, QAbsent,
           SignupBody(email, password, "Ann", "acme"), NoClaimed)

SignupNext ==
    \/ Respond
    \/ last = Idle /\ now < TokenTTL /\ Tick(now + TokenTTL)
    \/ /\ last = Idle
       /\ \E p \in Procs, e \in Emails, pw \in {"password-a", "short"} :
             SignupLookup(p, SignupRequest(e, pw))
    \/ /\ last = Idle /\ Cardinality(tenants) < MaxTenants
       /\ \E p \in Procs : SignupCreateTenant(p, "s1")
    \/ /\ last = Idle
       /\ \E p \in Procs : SignupCreateUser(p)
    \/ /\ last = Idle
       /\ \E p \in Procs : SignupReturn(p)
    \/ /\ last = Idle
       /\ \E e \in Emails, pw \in {"password-a", "password-b"} : Login(LoginRequest(e, pw))
    \/ /\ last = Idle /\ tok # NoToken
       /\ GetMe(MeRequest(BearerHeader(tok)))

SpecSignup == EmptyInit /\ [][SignupNext]_vars

-----------------------------------------------------------------------------
(* The cancellation specification: signups run concurrently on an empty     *)
(* database and the client of any of them may go away while the handler is  *)
(* between or inside its store calls.                                       *)

CancelNext ==
    \/ \E p \in Procs, e \in Emails : SignupLookup(p, SignupRequest(e, "password-a"))
    \/ \E p \in Procs : SignupSend(p)
    \/ \E p \in Procs : RequestCancel(p)
    \/ Cardinality(tenants) < MaxTenants /\ \E p \in Procs : SignupCreateTenant(p, "s1")
    \/ \E p \in Procs : SignupCreateUser(p)
    \/ \E p \in Procs : SignupReturn(p)

SpecCancel == EmptyInit /\ [][CancelNext]_vars

-----------------------------------------------------------------------------
(* The paging specification: tenant tA's user holds a token, two channels   *)
(* of tA exist; messages are created concurrently and listed with every     *)
(* kind of cursor and limit.                                                *)

\* The messages sequence hands out at most this many values.
MaxMsgs == 4

\* The state after the seeded user u1 logged in and created two channels.
PagesInit ==
    /\ jwtSecret = "dev-secret"
    /\ now = 0
    /\ tenants = TenantIDs
    /\ users = SeedUsers
    /\ channels = { [id |-> c, tenant_id |-> "tA", name |-> "general", created_at |-> 0] :
                      c \in {"c1", "c2"} }
    /\ messages = {}
    /\ members = {}
    /\ nextMsgID = 1
    /\ tok = GenerateToken("u1", "tA", "a@x.com", "dev-secret", TokenTTL, 0)
    /\ grant = Grant("u1", "tA", "a@x.com", TokenTTL, 0)
    /\ last = Idle
    /\ signups = [p \in Procs |-> SignupIdle]
    /\ inserts = {}
    /\ walk = NoWalk
    /\ page = NoPage
    /\ cancelled = {}
    /\ flying = {}

PostRequest(id) ==
    [Authed("messageHandler.Create", id) EXCEPT !.body = Body("", "hi", "", "", "")]

ListRequest(id, before, limit) ==
    [Authed("messageHandler.List", id) EXCEPT !.before = before, !.limit = limit]

\* The cursors and limits a client sends.
Cursors == {QAbsent, QBad} \cup { QInt(k) : k \in 0..(MaxMsgs + 1) }
Limits == {QAbsent, QBad} \cup { QInt(l) : l \in {0, 1, 2, LimitCap, LimitCap + 1} }

PagesNext ==
    \/ Respond
    \/ /\ last = Idle /\ nextMsgID <= MaxMsgs
       /\ \E p \in Procs, id \in ChannelIDs : MessageCreateBegin(p, PostRequest(id))
    \/ /\ last = Idle
       /\ \E p \in Procs : MessageCreateCommit(p)
    \/ /\ last = Idle
       /\ \E id \in {"c1", "c2", BadUUID}, b \in Cursors, l \in Limits :
             MessageList(ListRequest(id, b, l))

SpecPages == PagesInit /\ [][PagesNext]_vars

-----------------------------------------------------------------------------
(* A client walking a channel by cursor: "before" of each request is the    *)
(* smallest id of the page before, 0 on the first; the walk ends on an      *)
(* empty page. Other clients create messages meanwhile.                     *)

\* The smallest id of a non-empty page: its last element, pages being served
\* newest first.
SmallestKey(result) == result[Len(result)].id

\* The walker's next request.
WalkRequest ==
    ListRequest(walk.channel, QInt(walk.cursor), QInt(walk.limit))

\* The walker sends: the first request of a walk, or the next one.
WalkSend ==
    IF walk = NoWalk
    THEN \E id \in ChannelIDs, l \in {1, 2} :
             MessageList(ListRequest(id, QInt(0), QInt(l)))
    ELSE ~walk.done /\ MessageList(WalkRequest)

\* The walker takes the response to its request. The first page starts the
\* walk and records the messages of the channel that exist at that moment.
WalkReceive ==
    /\ last # Idle /\ last.served /\ last.ran
    /\ Route(last.req.method, last.req.path).handler = "messageHandler.List"
    /\ last.status = 200
    /\ LET result == last.body.messages
           first == walk = NoWalk
       IN /\ first => last.req.before = QInt(0)
          /\ ~first => ~walk.done /\ last.req = WalkRequest
          /\ walk' = [active |-> TRUE,
                      channel |-> last.req.id,
                      limit |-> last.req.limit.n,
                      began |-> IF first
                                THEN { m \in messages : m.channel_id = last.req.id }
                                ELSE walk.began,
                      got |-> (IF first THEN <<>> ELSE walk.got) \o result,
                      cursor |-> IF result # <<>> THEN SmallestKey(result)
                                 ELSE IF first THEN 0 ELSE walk.cursor,
                      done |-> result = <<>>]
    /\ last' = Idle
    /\ UNCHANGED <<dbVars, jwtSecret, now, tok, grant, signups, inserts, page, cancelled, flying>>

WalkNext ==
    \/ Respond
    \/ last = Idle /\ nextMsgID <= MaxMsgs
         /\ \E p \in Procs, id \in ChannelIDs : MessageCreateBegin(p, PostRequest(id))
    \/ last = Idle /\ \E p \in Procs : MessageCreateCommit(p)
    \/ last = Idle /\ WalkSend
    \/ WalkReceive

SpecWalk == PagesInit /\ [][WalkNext]_vars

-----------------------------------------------------------------------------
(* A client that keeps a page it was served and asks for the same page      *)
(* again later, while other clients create messages.                        *)

\* The list requests of the client: any page first, the kept page afterwards.
PageSend ==
    IF page = NoPage
    THEN \E id \in {"c1", "c2"}, k \in 0..(MaxMsgs + 1), l \in {1, 2} :
             MessageList(ListRequest(id, QInt(k), QInt(l)))
    ELSE MessageList(page.req)

\* The client keeps the page of the response in hand, together with what the
\* database held when it was served: the visible rows, the next value of the
\* sequence, and the rows of the inserts that had not committed yet.
PageKeep ==
    /\ page = NoPage
    /\ last # Idle /\ last.served /\ last.ran
    /\ Route(last.req.method, last.req.path).handler = "messageHandler.List"
    /\ last.status = 200
    /\ page' = [taken |-> TRUE,
                req |-> last.req,
                result |-> last.body.messages,
                rows |-> messages,
                seq |-> nextMsgID,
                pending |-> { i.row : i \in inserts }]
    /\ last' = Idle
    /\ UNCHANGED <<dbVars, jwtSecret, now, tok, grant, signups, inserts, walk, cancelled, flying>>

StableNext ==
    \/ Respond
    \/ last = Idle /\ nextMsgID <= MaxMsgs
         /\ \E p \in Procs, id \in {"c1", "c2"} : MessageCreateBegin(p, PostRequest(id))
    \/ last = Idle /\ \E p \in Procs : MessageCreateCommit(p)
    \/ last = Idle /\ PageSend
    \/ PageKeep

SpecStable == PagesInit /\ [][StableNext]_vars

-----------------------------------------------------------------------------
(* The membership specification: the two seeded users log in by turns and   *)
(* join and leave the channels, with and without a role in the body. The    *)
(* requests of the two interleave freely; each runs one statement.          *)

\* The bodies of a join: none (or one that does not parse), one without a
\* role, one for each role.
JoinBodies == {NoBody} \cup { Body("", "", r, "", "") : r \in {""} \cup Roles }

JoinRequest(id, body) == [Authed("membershipHandler.Join", id) EXCEPT !.body = body]
LeaveRequest(id) == Authed("membershipHandler.Leave", id)

MembersNext ==
    \/ Respond
    \/ /\ last = Idle
       /\ \E u \in SeedUsers : Login(LoginRequest(u.email, u.password_hash.pw))
    \/ /\ last = Idle
       /\ \E id \in PathIDs, b \in JoinBodies, cl \in ClaimedIDs :
             Join([JoinRequest(id, b) EXCEPT !.claimed = cl])
    \/ /\ last = Idle
       /\ \E id \in PathIDs, cl \in ClaimedIDs :
             Leave([LeaveRequest(id) EXCEPT !.claimed = cl])
    \/ /\ last = Idle
       /\ \E id \in PathIDs : ListMembers(Authed("membershipHandler.ListMembers", id))

SpecMembers == PagesInit /\ [][MembersNext]_vars

-----------------------------------------------------------------------------
(* The channel specification: the users of the two seeded tenants log in by *)
(* turns, create channels and list them, with and without another tenant's  *)
(* id written into the request.                                             *)

ChannelPost(claimed) ==
    [Authed("channelHandler.Create", "") EXCEPT
        !.body = Body("general", "", "", "", ""), !.claimed = claimed]

ChannelsNext ==
    \/ Respond
    \/ /\ last = Idle
       /\ \E u \in SeedUsers : Login(LoginRequest(u.email, u.password_hash.pw))
    \/ /\ last = Idle /\ tok # NoToken
       /\ \E id \in ChannelIDs, cl \in ClaimedIDs : ChannelCreate(ChannelPost(cl), id)
    \/ /\ last = Idle
       /\ \E cl \in ClaimedIDs : \E h \in HeadersWith(cl) :
             ChannelList(Plain("channelHandler.List", h, "", cl))

SpecChannels == ApiInit /\ [][ChannelsNext]_vars

-----------------------------------------------------------------------------
(* The cap specification: one channel filled past the cap of a page, and    *)
(* list requests without a limit, with the cap and with more than the cap.  *)

CapMsgs == 101

CapLimits == {QAbsent, QInt(LimitCap), QInt(LimitCap + 1)}

CapNext ==
    \/ Respond
    \/ last = Idle /\ nextMsgID <= CapMsgs
         /\ MessageCreateBegin("p1", PostRequest("c1"))
    \/ last = Idle /\ MessageCreateCommit("p1")
    \/ last = Idle /\ \E b \in {QAbsent, QInt(CapMsgs)}, l \in CapLimits :
         MessageList(ListRequest("c1", b, l))

SpecCap == PagesInit /\ [][CapNext]_vars

-----------------------------------------------------------------------------
(* Vocabulary of the properties.                                            *)

\* The header has the shape "Bearer <token>" (the scheme in any case) and its
\* token part is one three-part token.
IsBearer(h) ==
    /\ Len(h) = 3
    /\ h[1].k = "w" /\ h[1].w \in {"Bearer", "bearer", "BEARER"}
    /\ h[2] = SP
    /\ h[3].k = "jwt"

\* The last request came with a Bearer header carrying a token.
PresentedToken == last.served /\ IsBearer(last.req.header)
Presented == last.req.header[3].t

\* The gate's answer to a token it does not accept.
RejectedAsInvalid ==
    /\ last.status = 401
    /\ last.body = Err("invalid or expired token")
    /\ last.keys = NoPrincipal
    /\ ~last.ran
    /\ last.calls = <<>>

\* The whole second at or below an instant.
WholeSecond(t) ==
    CHOOSE s \in 0..t : s % TicksPerSecond = 0 /\ s <= t /\ t < s + TicksPerSecond

\* The principal GenerateToken was called for.
Granted == [user_id |-> grant.user_id, tenant_id |-> grant.tenant_id, email |-> grant.email]

\* The last request presented the token the client holds, unchanged.
PresentedHeld == PresentedToken /\ tok # NoToken /\ Presented = tok

\* The handler the last request was routed to, and whether the gate stands
\* in front of it.
LastHandler == Route(last.req.method, last.req.path).handler
LastGated == Gated(Route(last.req.method, last.req.path))

\* Status and body of the last response.
Outcome == [status |-> last.status, body |-> last.body]

\* The last request named a channel that a tenant other than the
\* principal's owns.
ForeignChannel ==
    \E c \in channels : c.id = last.req.id /\ c.tenant_id # last.keys.tenant_id

\* The signup endpoint, the login endpoint and the health probe.
PublicHandlers == {"health", "authHandler.Signup", "authHandler.Login"}

\* The last request was a message listing that passed the gate and named a
\* well-formed channel id.
ListServed ==
    /\ last.served /\ last.ran
    /\ LastHandler = "messageHandler.List"
    /\ UUIDParses(last.req.id)

\* The visible messages of a channel, and those of them below a key.
ChannelRows(c) == { m \in messages : m.channel_id = c }
RowsBelow(c, k) == { m \in ChannelRows(c) : m.id < k }

Min(a, b) == IF a < b THEN a ELSE b

\* The sequence holds exactly the Min(n, |rows|) rows of greatest key, in
\* strictly descending key order.
IsNewestOf(result, rows, n) ==
    /\ Len(result) = Min(n, Cardinality(rows))
    /\ \A i \in 1..Len(result) : result[i] \in rows
    /\ \A i \in 1..Len(result), j \in 1..Len(result) : i < j => result[i].id > result[j].id
    /\ \A m \in rows :
          (\A i \in 1..Len(result) : result[i] # m)
              => \A i \in 1..Len(result) : m.id < result[i].id

-----------------------------------------------------------------------------
(* C8: token round trip.                                                    *)

-----------------------------------------------------------------------------
(* C9: what validate rejects.                                               *)

\* The token is signed, over its own header and claims, with a secret that is
\* not the validating one.
SignedWithOtherSecret(t) ==
    \E k \in (Secrets \cup {AttackerKey}) \ {jwtSecret} : t.sig = HMAC(t.alg, k, t.alg, t.claims)

\* The token carries the signature of the issued token over other claims.
ClaimsChangedAfterSigning(t) ==
    tok # NoToken /\ t.alg = tok.alg /\ t.sig = tok.sig /\ t.claims # tok.claims

\* The token is the issued one and its expires_at has passed.
ExpiredAt(t, at) == tok # NoToken /\ t = tok /\ at >= t.claims.exp

\* C9: a token signed with a different secret, a token whose claims were
\* changed after signing and a token whose expires_at has passed are all
\* rejected with the same unauthorized response, no principal is attached and
\* no handler runs.
C9_RejectsForgedChangedExpired ==
    (PresentedToken /\ ( \/ SignedWithOtherSecret(Presented)
                         \/ ClaimsChangedAfterSigning(Presented)
                         \/ ExpiredAt(Presented, last.at) ))
        => RejectedAsInvalid

\* A token whose tenant claim was changed under the issued signature, presented
\* before the issued token's expiry, and rejected.
C9_Witness ==
    /\ PresentedToken
    /\ ClaimsChangedAfterSigning(Presented)
    /\ Presented.claims.tenant_id # tok.claims.tenant_id
    /\ last.at < tok.claims.exp
    /\ RejectedAsInvalid

-----------------------------------------------------------------------------
(* C10: algorithm substitution.                                             *)

\* C10: a token whose header names an algorithm outside the HMAC family is
\* rejected before any signature check, whatever its claims and signature
\* are, and the secret is not handed out as its verification key.
C10_AlgorithmSubstitutionRejected ==
    (PresentedToken /\ Presented.alg \notin {"HS256", "HS384", "HS512"})
        => (RejectedAsInvalid /\ ~last.parse.verified /\ ~last.parse.keyGiven)

\* An RS256 token carrying the very bytes the server's HS256 MAC gives for
\* its header and claims, rejected.
C10_Witness ==
    /\ PresentedToken
    /\ Presented.alg = "RS256"
    /\ Presented.sig = HMAC("HS256", jwtSecret, "RS256", Presented.claims)
    /\ RejectedAsInvalid
    /\ ~last.parse.verified

-----------------------------------------------------------------------------
(* C1: channel lookup across tenants.                                       *)

ChannelNotFound == [status |-> 404, body |-> Err("channel not found")]

\* C1: a GET of a channel by a principal of tenant A yields the channel only
\* when a channel of that id exists under A; for a channel created under
\* another tenant B the outcome is not-found, the very outcome given for an id
\* under which no channel exists at all.
C1_ChannelLookupTenantIsolated ==
    (last.served /\ last.ran /\ LastHandler = "channelHandler.GetByID"
       /\ UUIDParses(last.req.id))
        => IF \E c \in channels : c.id = last.req.id /\ c.tenant_id = last.keys.tenant_id
           THEN /\ last.status = 200
                /\ last.body.channel.id = last.req.id
                /\ last.body.channel.tenant_id = last.keys.tenant_id
           ELSE /\ ForeignChannel => Outcome = ChannelNotFound
                /\ (\A c \in channels : c.id # last.req.id) => Outcome = ChannelNotFound

\* A principal of tenant tA asks for a channel that exists under tenant tB by
\* its exact id and is told it was not found.
C1_Witness ==
    /\ last.served /\ last.ran /\ LastHandler = "channelHandler.GetByID"
    /\ last.keys.tenant_id = "tA"
    /\ \E c \in channels : c.id = last.req.id /\ c.tenant_id = "tB"
    /\ Outcome = ChannelNotFound

-----------------------------------------------------------------------------
(* C2: channel-scoped reads across tenants.                                 *)

\* C2 as stated: when a principal of tenant A lists the messages or the
\* members of a channel that belongs to tenant B, the response holds none of
\* B's rows and is the response given for a channel id that does not exist,
\* an empty list.
C2_ChannelReadsTenantIsolated ==
    (last.served /\ last.ran /\ last.status = 200 /\ ForeignChannel)
        => /\ LastHandler = "messageHandler.List" => last.body = [messages |-> <<>>]
           /\ LastHandler = "membershipHandler.ListMembers" => last.body = [members |-> {}]

-----------------------------------------------------------------------------
(* C3: writes across tenants.                                               *)

\* C3 as stated: a request of a principal of tenant A that created a message
\* or joined a channel did so on a channel of tenant A; no message row and no
\* membership row gets attached to a channel of another tenant.
C3_WritesTenantIsolated ==
    (last.served /\ last.ran
       /\ \/ LastHandler = "messageHandler.Create" /\ last.status = 201
          \/ LastHandler = "membershipHandler.Join" /\ last.status = 204)
        => ~ForeignChannel

-----------------------------------------------------------------------------
(* C4: where the tenant id of a data-access call comes from.                *)

\* C4: in every protected request, the tenant id passed to a data-access call
\* is the tenant_id claim of the token the gate validated for that request,
\* whatever tenant id the client wrote into the request itself.
C4_TenantFromValidatedToken ==
    (last.served /\ LastGated)
        => \A i \in 1..Len(last.calls) :
              last.calls[i].tenant # "-"
                  => /\ PresentedToken
                     /\ last.parse.err = "nil"
                     /\ last.calls[i].tenant = Presented.claims.tenant_id

\* A channel created by a principal of tenant tA whose request named tenant
\* tB: the store was called with tA.
C4_Witness ==
    /\ last.served /\ LastGated /\ LastHandler = "channelHandler.Create"
    /\ last.req.claimed.tenant_id = "tB"
    /\ PresentedToken /\ Presented.claims.tenant_id = "tA"
    /\ last.status = 201
    /\ Len(last.calls) = 1 /\ last.calls[1].tenant = "tA"

-----------------------------------------------------------------------------
(* C5: the gate fails closed.                                               *)

\* C5: on a protected route the handler runs, and data access happens, only
\* when the request carried a header of the form "Bearer <token>" with a token
\* the server issued and that has not expired; in every other case the
\* request is aborted as unauthorized, with no principal, no handler and no
\* data access.
C5_GateFailsClosed ==
    (last.served /\ LastGated)
        => IF PresentedHeld /\ last.at < tok.claims.exp
           THEN last.ran /\ last.parse.err = "nil"
           ELSE /\ last.status = 401
                /\ ~last.ran
                /\ last.calls = <<>>
                /\ last.keys = NoPrincipal

\* The held token presented to the message-creating route after it expired:
\* unauthorized, and neither handler nor store ran.
C5_Witness ==
    /\ last.served /\ LastHandler = "messageHandler.Create"
    /\ PresentedHeld /\ last.at >= tok.claims.exp
    /\ last.status = 401 /\ ~last.ran /\ last.calls = <<>>

-----------------------------------------------------------------------------
(* C6: the routes outside the gate.                                         *)

\* C6: the routes registered without the gate are exactly signup, login and
\* the health probe; a request without a token reaches its handler on these
\* and on no other route, and on every other route a handler runs only after
\* the gate validated a token.
C6_ExactlyThreePublicRoutes ==
    /\ { r.handler : r \in { x \in Routes : ~Gated(x) } } = PublicHandlers
    /\ (last.served /\ last.req.header = <<>>)
          => (last.ran <=> LastHandler \in PublicHandlers)
    /\ (last.served /\ last.ran /\ LastHandler \notin PublicHandlers)
          => last.parse.err = "nil"

\* A login served without any Authorization header.
C6_Witness ==
    /\ last.served /\ last.req.header = <<>>
    /\ LastHandler = "authHandler.Login"
    /\ last.ran /\ last.status = 200

-----------------------------------------------------------------------------
(* C7: what the gate answers on a failure.                                  *)

\* C7 as stated: any two requests the gate refuses, whatever the failure
\* (missing header, malformed header, bad signature, expired token,
\* disallowed algorithm), get the same status and the same body.
C7_OneUnauthorizedOutcome ==
    \A h1, h2 \in HeadersFrom(tok) :
        LET g1 == AuthMiddleware(h1, jwtSecret, now)
            g2 == AuthMiddleware(h2, jwtSecret, now)
        IN (g1.aborted /\ g2.aborted) => (g1.status = g2.status /\ g1.body = g2.body)

-----------------------------------------------------------------------------
(* C11: what a refused login tells.                                         *)

LoginRefused == [status |-> 401, body |-> Err("invalid email or password")]

\* The last request was a login whose body bound.
LoginServed ==
    /\ last.served /\ LastHandler = "authHandler.Login"
    /\ last.req.body.ok /\ last.req.body.email # "" /\ last.req.body.password # ""

\* The email of the last request has no credential record.
LoginEmailUnknown == \A u \in users : u.email # last.req.body.email

\* The email of the last request is registered, under another password.
LoginPasswordWrong ==
    \E u \in users : u.email = last.req.body.email
                        /\ u.password_hash.pw # last.req.body.password

\* C11: a login with a registered email and a wrong password and a login with
\* an email that has no credential record get the same unauthorized status
\* and the same body, and the body carries no token.
C11_LoginDoesNotRevealEmail ==
    (LoginServed /\ (LoginEmailUnknown \/ LoginPasswordWrong))
        => /\ Outcome = LoginRefused
           /\ "token" \notin DOMAIN last.body

\* A login with the email of a signed-up user and a wrong password, refused.
C11_Witness ==
    /\ LoginServed /\ LoginPasswordWrong
    /\ last.req.body.email = "a@x.com"
    /\ Outcome = LoginRefused

-----------------------------------------------------------------------------
(* C12: a signup after a signup with the same email.                        *)

EmailConflict == [status |-> 409, body |-> Err("email already registered")]

\* C12: a signup that comes in when a signup with the same email has already
\* succeeded gets the conflict outcome, is given no token and has created
\* neither a tenant row nor a user row; it never stands before an insert.
C12_LaterSignupConflicts ==
    \A p \in Procs :
        /\ (signups[p].pc = "done" /\ SignupBinds(signups[p].req.body) /\ signups[p].existed)
               => /\ signups[p].status = EmailConflict.status
                  /\ signups[p].body = EmailConflict.body
                  /\ signups[p].tenant = Nil
                  /\ signups[p].user = Nil
        /\ (signups[p].pc \in {"tenant", "user"}) => ~signups[p].existed

\* A signup for a@x.com finished with the conflict outcome while the user row
\* of the earlier signup is in the table and one tenant exists.
C12_Witness ==
    /\ \E p \in Procs :
          /\ signups[p].pc = "done" /\ signups[p].existed
          /\ signups[p].req.body.email = "a@x.com"
          /\ signups[p].status = 409
    /\ Cardinality({ u \in users : u.email = "a@x.com" }) = 1
    /\ Cardinality(tenants) = 1

-----------------------------------------------------------------------------
(* C13: one credential record per email.                                    *)

-----------------------------------------------------------------------------
(* C14: what a successful signup leaves behind.                             *)

\* The last request presented the token t in a Bearer header.
PresentedIs(t) == PresentedToken /\ Presented = t

\* C14: a signup answered with 201 has created one tenant and one user of
\* that tenant, both in the tables, and its token names them; that token
\* presented to the gate before its expiry attaches the new user and the new
\* tenant as principal, and a later login with the signup's email and password
\* succeeds with a token of the same user_id and tenant_id.
C14_SignupThenTokenThenLogin ==
    \A p \in Procs :
        (signups[p].pc = "done" /\ signups[p].status = 201)
            => LET me == signups[p]
                   t == me.body.token
               IN /\ me.tenant.id \in tenants
                  /\ me.user \in users
                  /\ me.user.tenant_id = me.tenant.id
                  /\ me.user.email = me.req.body.email
                  /\ t.claims.user_id = me.user.id
                  /\ t.claims.tenant_id = me.tenant.id
                  /\ (last.served /\ LastGated /\ PresentedIs(t) /\ last.at < t.claims.exp)
                        => /\ last.ran
                           /\ last.keys.user_id = me.user.id
                           /\ last.keys.tenant_id = me.tenant.id
                  /\ (LoginServed /\ last.req.body.email = me.req.body.email
                        /\ last.req.body.password = me.req.body.password)
                        => /\ last.status = 200
                           /\ last.body.token.claims.user_id = me.user.id
                           /\ last.body.token.claims.tenant_id = me.tenant.id

\* A signup answered with 201, and after it, a day later, a login with the
\* same email and password answered with a token of the same ids.
C14_Witness ==
    \E p \in Procs :
        /\ signups[p].pc = "done" /\ signups[p].status = 201
        /\ LoginServed /\ last.status = 200
        /\ last.req.body.email = signups[p].req.body.email
        /\ last.body.token.claims.user_id = signups[p].user.id
        /\ last.body.token.claims.tenant_id = signups[p].tenant.id
        /\ last.at > signups[p].body.token.claims.iat

-----------------------------------------------------------------------------
(* C15: the first page.                                                     *)

\* C15: with cursor 0 (or none) and a limit L in 1..100, listing a channel
\* that holds n messages returns exactly the min(L, n) messages of that
\* channel with the greatest keys, in strictly descending key order, and no
\* message of another channel.
C15_FirstPage ==
    (ListServed /\ last.req.before \in {QAbsent, QInt(0)}
       /\ last.req.limit.k = "int" /\ last.req.limit.n >= 1 /\ last.req.limit.n <= 100)
        => /\ last.status = 200
           /\ IsNewestOf(last.body.messages, ChannelRows(last.req.id), last.req.limit.n)
           /\ \A i \in 1..Len(last.body.messages) :
                 last.body.messages[i].channel_id = last.req.id

\* A first page of limit 2 over a channel of three messages, while the other
\* channel holds a message too: two messages come back.
C15_Witness ==
    /\ ListServed /\ last.req.before = QInt(0) /\ last.req.limit = QInt(2)
    /\ Cardinality(ChannelRows(last.req.id)) = 3
    /\ \E m \in messages : m.channel_id # last.req.id
    /\ Len(last.body.messages) = 2

-----------------------------------------------------------------------------
(* C16: later pages.                                                        *)

\* C16: with cursor k > 0 and limit L, listing a channel returns the at most
\* L messages of that channel with the greatest keys among those strictly
\* below k, in strictly descending order; when no message of the channel has
\* a key below k the answer is a success with the empty sequence.
C16_LaterPages ==
    (ListServed /\ last.req.before.k = "int" /\ last.req.before.n > 0
       /\ last.req.limit.k = "int" /\ last.req.limit.n >= 1 /\ last.req.limit.n <= 100)
        => /\ last.status = 200
           /\ IsNewestOf(last.body.messages, RowsBelow(last.req.id, last.req.before.n),
                         last.req.limit.n)
           /\ RowsBelow(last.req.id, last.req.before.n) = {} => last.body.messages = <<>>

\* A page of limit 1 below key 3 of a channel that holds the keys 1, 3 and
\* more: the message of key 1 comes back.
C16_Witness ==
    /\ ListServed /\ last.req.before = QInt(3) /\ last.req.limit = QInt(1)
    /\ \E m \in ChannelRows(last.req.id) : m.id = 3
    /\ Len(last.body.messages) = 1 /\ last.body.messages[1].id = 1
    /\ \E m \in messages : m.id = 2

-----------------------------------------------------------------------------
(* C20: pagination parameters that do not parse.                            *)

\* C20: a list request that passed the gate and whose before is not an
\* integer, or whose limit is not an integer or is below 1, is answered with
\* status 400 and a message that names a parameter at fault, and no
\* data-access call is issued for it. The parameters are examined in the
\* order channel id, before, limit, and the first one at fault is named.
C20_InvalidPagination ==
    (/\ last # Idle /\ last.served /\ last.ran
     /\ LastHandler = "messageHandler.List"
     /\ ( \/ last.req.before = QBad
          \/ last.req.limit = QBad
          \/ (last.req.limit.k = "int" /\ last.req.limit.n < 1) ))
        => /\ last.status = 400
           /\ last.body = IF ~UUIDParses(last.req.id)
                          THEN Err("invalid channel ID")
                          ELSE IF last.req.before = QBad
                          THEN Err("invalid 'before' parameter")
                          ELSE Err("invalid 'limit' parameter")
           /\ last.calls = <<>>

\* A list request with limit 0 and a well-formed cursor, refused.
C20_Witness ==
    /\ ListServed /\ last.req.limit = QInt(0) /\ last.req.before = QInt(1)
    /\ last.status = 400
    /\ last.body = Err("invalid 'limit' parameter")
    /\ last.calls = <<>>

-----------------------------------------------------------------------------
(* C19: the cap and the default of the page size.                           *)

\* The rows a served list request selects from: the whole channel without a
\* cursor, the rows below the cursor with one.
Selected ==
    IF last.req.before.k = "int" /\ last.req.before.n > 0
    THEN RowsBelow(last.req.id, last.req.before.n)
    ELSE ChannelRows(last.req.id)

\* C19: a list request with a limit above 100 is served with status 200 and
\* the page a limit of exactly 100 selects; a list request without a limit is
\* served the page a limit of 50 selects; and no page served holds more than
\* 100 messages.
C19_LimitCapAndDefault ==
    (ListServed /\ last.req.before # QBad)
        => /\ (last.req.limit.k = "int" /\ last.req.limit.n > 100)
                => /\ last.status = 200
                   /\ IsNewestOf(last.body.messages, Selected, 100)
                   /\ last.calls[1].args[3] = 100
           /\ last.req.limit = QAbsent
                => /\ last.status = 200
                   /\ IsNewestOf(last.body.messages, Selected, 50)
           /\ last.status = 200 => Len(last.body.messages) <= 100

\* A request for 101 messages of a channel that holds 101, served 100.
C19_Witness ==
    /\ ListServed /\ last.req.limit = QInt(101) /\ last.req.before = QAbsent
    /\ Cardinality(ChannelRows(last.req.id)) > 100
    /\ last.status = 200
    /\ Len(last.body.messages) = 100

-----------------------------------------------------------------------------
(* C17: the cursor walk.                                                    *)

\* C17: in a walk by cursor the messages received so far are of the walked
\* channel and in strictly descending id order, hence none twice; every
\* message that existed in the channel when the walk began and whose id is
\* not below the cursor has been received; and when the walk has ended every
\* message that existed when it began has been received. Messages are
\* created and committed by other clients throughout.
C17_CursorWalk ==
    walk # NoWalk =>
        /\ \A i \in 1..Len(walk.got) : walk.got[i].channel_id = walk.channel
        /\ \A i \in 1..Len(walk.got), j \in 1..Len(walk.got) :
              i < j => walk.got[i].id > walk.got[j].id
        /\ \A m \in walk.began :
              (walk.done \/ (walk.got # <<>> /\ m.id >= walk.cursor))
                  => \E i \in 1..Len(walk.got) : walk.got[i] = m

\* A walk of three pages or more that has ended, during which a message was
\* committed to the walked channel.
C17_Witness ==
    /\ walk # NoWalk /\ walk.done
    /\ walk.limit = 1 /\ Len(walk.got) >= 2
    /\ \E m \in messages : m.channel_id = walk.channel /\ m \notin walk.began

-----------------------------------------------------------------------------
(* C18: page stability.                                                     *)

\* The kept page has been asked for again and served.
PageServedAgain ==
    /\ page # NoPage
    /\ ListServed /\ last.status = 200
    /\ last.req = page.req

\* A message was committed since the page was kept.
CreatedSince == messages # page.rows

\* C18: the same request against an unchanged message set is served the same
\* page, and with a cursor above 0 it is served the same page whatever
\* messages were created between the two calls.
C18_PageStable ==
    PageServedAgain =>
        /\ ~CreatedSince => last.body.messages = page.result
        /\ page.req.before.n > 0 => last.body.messages = page.result

-----------------------------------------------------------------------------
(* C21: joins and leaves are idempotent.                                    *)

\* The step serves a join, or a leave, that reached its statement; the pair
\* it names is the channel of the path and the user of the principal.
JoinStep ==
    /\ last = Idle /\ last' # Idle /\ last'.ran
    /\ Route(last'.req.method, last'.req.path).handler = "membershipHandler.Join"
    /\ UUIDParses(last'.req.id)
LeaveStep ==
    /\ last = Idle /\ last' # Idle /\ last'.ran
    /\ Route(last'.req.method, last'.req.path).handler = "membershipHandler.Leave"
    /\ UUIDParses(last'.req.id)

\* The membership rows of a (channel, user) pair in a table.
PairRows(table, c, u) == { m \in table : m.channel_id = c /\ m.user_id = u }

\* C21: a join of a pair that already has a row is answered 204 and leaves the
\* table as it was; every join answered 204 leaves exactly one row of its
\* pair; a leave of a pair without a row is answered 204 and leaves the table
\* as it was; and whatever the order of the joins and leaves of the two
\* users, no pair ever has two rows.
C21_MembershipIdempotent ==
    /\ [](\A m1 \in members, m2 \in members :
             (m1.channel_id = m2.channel_id /\ m1.user_id = m2.user_id) => m1 = m2)
    /\ [][JoinStep =>
            /\ PairRows(members, last'.req.id, last'.keys.user_id) # {}
                  => last'.status = 204 /\ members' = members
            /\ last'.status = 204
                  => Cardinality(PairRows(members', last'.req.id, last'.keys.user_id)) = 1]_vars
    /\ [][(LeaveStep /\ PairRows(members, last'.req.id, last'.keys.user_id) = {})
            => last'.status = 204 /\ members' = members]_vars

\* A join that asked for the role admin was answered 204 while the caller's
\* row of that channel holds the role member: the second join of the pair.
C21_Witness ==
    /\ last # Idle /\ last.ran /\ LastHandler = "membershipHandler.Join"
    /\ last.status = 204 /\ last.req.body.role = "admin"
    /\ \E m \in members :
          m.channel_id = last.req.id /\ m.user_id = last.keys.user_id /\ m.role = "member"
    /\ Cardinality(members) >= 2

-----------------------------------------------------------------------------
(* C29: a join or leave touches the caller's own row only.                  *)

\* The step serves a request to the join or the leave route, whether or not
\* it got past the gate and the parsing of the path.
MembershipStep ==
    /\ last = Idle /\ last' # Idle
    /\ Route(last'.req.method, last'.req.path).handler
          \in {"membershipHandler.Join", "membershipHandler.Leave"}

\* C29: a join or leave request on channel c by the principal u leaves every
\* membership row of another user or of another channel as it was, whatever
\* user id the client wrote into the request; a join removes no row and adds
\* at most one, a leave adds none.
C29_OwnMembershipOnly ==
    [][MembershipStep =>
          LET c == last'.req.id
              u == last'.keys.user_id
              join == Route(last'.req.method, last'.req.path).handler = "membershipHandler.Join"
          IN /\ \A m \in members \cup members' :
                   (m.channel_id # c \/ m.user_id # u) => (m \in members <=> m \in members')
             /\ join => members \subseteq members' /\ Cardinality(members' \ members) <= 1
             /\ ~join => members' \subseteq members]_vars

\* A leave by u1 that wrote u2's id into its request was served while u2's
\* row of the same channel and u1's row of the other channel are in place.
C29_Witness ==
    /\ last # Idle /\ last.ran /\ LastHandler = "membershipHandler.Leave"
    /\ last.status = 204
    /\ last.keys.user_id = "u1" /\ last.req.claimed.user_id = "u2"
    /\ PairRows(members, last.req.id, "u1") = {}
    /\ PairRows(members, last.req.id, "u2") # {}
    /\ \E m \in members : m.user_id = "u1" /\ m.channel_id # last.req.id

-----------------------------------------------------------------------------
(* C30: the first join fixes the role.                                      *)

\* The role a join request asks for: member when the body is absent, does not
\* parse, or names no role.
AskedRole(req) == IF ~req.body.ok \/ req.body.role = "" THEN "member" ELSE req.body.role

\* C30: a join of a pair that already has a row is answered 204 and the row
\* keeps its role, whatever role the join names; a join of a pair without a
\* row that is answered 204 stores the role it names, member when the body is
\* absent, does not parse or names none; and no step changes the role of a
\* row that is there before and after it, so that the role of a pair changes
\* only by a leave and a new join.
C30_FirstJoinFixesRole ==
    /\ [][JoinStep =>
            LET c == last'.req.id
                u == last'.keys.user_id
            IN /\ PairRows(members, c, u) # {}
                     => /\ last'.status = 204
                        /\ PairRows(members', c, u) = PairRows(members, c, u)
               /\ (PairRows(members, c, u) = {} /\ last'.status = 204)
                     => PairRows(members', c, u) =
                           {[channel_id |-> c, user_id |-> u, role |-> AskedRole(last'.req)]}]_vars
    /\ [][\A m \in members, n \in members' :
             (m.channel_id = n.channel_id /\ m.user_id = n.user_id) => m.role = n.role]_vars

\* A join without a body was answered 204 while the caller's row of that
\* channel holds the role admin, stored by the first join.
C30_Witness ==
    /\ last # Idle /\ last.ran /\ LastHandler = "membershipHandler.Join"
    /\ last.status = 204 /\ last.req.body = NoBody
    /\ PairRows(members, last.req.id, last.keys.user_id)
          = {[channel_id |-> last.req.id, user_id |-> last.keys.user_id, role |-> "admin"]}

-----------------------------------------------------------------------------
(* C22: expiry is exact and permanent.                                      *)

\* ParseToken's verdict on the held token at an instant.
HeldVerdict(secret, clock) == ParseToken(<<J(tok)>>, secret, clock).err

\* The held token stays the same over the step and was refused as expired
\* before it; then it is refused as expired after it as well.
ExpiredStays ==
    (tok # NoToken /\ tok' = tok /\ HeldVerdict(jwtSecret, now) = "expired")
        => HeldVerdict(jwtSecret', now') = "expired"

-----------------------------------------------------------------------------
(* C23: two signups for one email at the same time.                         *)

\* Two signups for the same email have both run to their response, each
\* having looked the email up while no user row held it.
RacedSignups(p, q) ==
    /\ p # q
    /\ signups[p].pc = "done" /\ signups[q].pc = "done"
    /\ signups[p].req.body.email = signups[q].req.body.email
    /\ signups[p].status # 400 /\ signups[q].status # 400
    /\ ~signups[p].existed /\ ~signups[q].existed

\* C23: of two signups for the same email that run concurrently, exactly one
\* creates the user and is answered 201 with a token, and the other is
\* answered with the conflict status 409.
C23_ConcurrentDuplicateSignup ==
    \A p \in Procs, q \in Procs :
        RacedSignups(p, q) =>
            \/ /\ signups[p].status = 201 /\ signups[p].user # Nil
               /\ signups[q].status = 409 /\ signups[q].user = Nil
            \/ /\ signups[q].status = 201 /\ signups[q].user # Nil
               /\ signups[p].status = 409 /\ signups[p].user = Nil

-----------------------------------------------------------------------------
(* C27: no tenant without its user.                                         *)

\* The user rows that reference a tenant.
UsersOf(tenantID) == { u \in users : u.tenant_id = tenantID }

\* C27: once a signup has run to its response, whatever the response, the
\* tenant row it created, if any, is referenced by exactly one user row, and
\* a signup that created no user created no tenant.
C27_NoOrphanTenant ==
    \A p \in Procs :
        signups[p].pc = "done" =>
            /\ signups[p].tenant # Nil => Cardinality(UsersOf(signups[p].tenant.id)) = 1
            /\ signups[p].user = Nil => signups[p].tenant = Nil

-----------------------------------------------------------------------------
(* C25: the channel list is the caller's tenant's channels.                 *)

\* The last request was a channel listing that got past the gate.
ChannelsListed ==
    last # Idle /\ last.ran /\ LastHandler = "channelHandler.List"

\* The step adds or removes channel rows.
ChannelsChange == channels' # channels

-----------------------------------------------------------------------------
(* C26: a principal without its user row.                                   *)

\* The last request was a 'current user' request that got past the gate, and
\* no user row carries the validated principal's user id under its tenant.
MeWithoutRow ==
    /\ last # Idle /\ last.ran /\ LastHandler = "userHandler.GetMe"
    /\ ~\E u \in users : u.id = last.keys.user_id /\ u.tenant_id = last.keys.tenant_id

\* C26: a 'current user' request whose validated principal names a user id
\* that no user row carries under the principal's tenant is answered 404
\* "user not found", not with an internal error.
C26_MissingUserIsNotFound ==
    MeWithoutRow =>
        /\ last.status = 404
        /\ last.body = Err("user not found")
        /\ last.calls = <<Call("UserStore.GetByID", last.keys.tenant_id, <<last.keys.user_id>>)>>

\* A valid token for user u1 under tenant tB, where u1's row is under tA,
\* answered 404.
C26_Witness ==
    /\ MeWithoutRow
    /\ last.parse.err = "nil"
    /\ last.keys.user_id = "u1" /\ last.keys.tenant_id = "tB"
    /\ \E u \in users : u.id = "u1"
    /\ last.status = 404

-----------------------------------------------------------------------------
(* C28: the sender of a message is the caller.                              *)

\* The step adds or removes message rows.
MessagesChange == messages' # messages

\* C28: a message row comes into being only by a create-message request
\* answered 201, one row at a time, and its sender_id is the user id of the
\* principal validated for that request, whatever user or tenant id the
\* client wrote into the request; no step removes or changes a message row,
\* so the sender of a row never changes.
C28_SenderIsCaller ==
    [][MessagesChange =>
          /\ last' # Idle /\ last'.ran /\ last'.status = 201
          /\ Route(last'.req.method, last'.req.path).handler = "messageHandler.Create"
          /\ last'.parse.err = "nil"
          /\ messages \subseteq messages'
          /\ \E m \in messages' :
                /\ messages' \ messages = {m}
                /\ m.sender_id = last'.keys.user_id
                /\ m.sender_id = last'.parse.claims.user_id
                /\ m = last'.body.message]_vars

\* A message created by u1 with u2's id written into the request: the row's
\* sender is u1.
C28_Witness ==
    /\ last # Idle /\ last.ran /\ LastHandler = "messageHandler.Create"
    /\ last.status = 201
    /\ last.keys.user_id = "u1" /\ last.req.claimed.user_id = "u2"
    /\ last.body.message \in messages
    /\ last.body.message.sender_id = "u1"

-----------------------------------------------------------------------------
====
